---------------------------- MODULE Spec2Model ----------------------------
(***************************************************************************)
(* State-machine model of the risk engine of the enhanced trading bot:     *)
(*   src/enhanced_risk_manager.py  (Position, EnhancedRiskManager)         *)
(*   src/main_enhanced.py          (EnhancedTradingBot)                    *)
(*                                                                         *)
(* Numbers.  The code computes in floats; the model computes in fixed      *)
(* point over the integers:                                                *)
(*   money  : cents                         (10000.00 USDT = 1000000)      *)
(*   price  : cents per base unit                                          *)
(*   size   : 1/SizeScale base units                                       *)
(*   time   : hours; the calendar date is now \div 24                     *)
(* Percentages are compared by cross-multiplication, so a comparison such  *)
(* as "daily loss <= -5%" is exact, equality included.  A division rounds  *)
(* down (MulDiv).                                                          *)
(*                                                                         *)
(* Operations.  The trading loop (LoopTop, AnalyzeAndTrade) is modelled    *)
(* with its position in the symbol list; execute_sell and update_position  *)
(* are public coroutines of the bot (the ledger's close and per-tick       *)
(* operations) and are also offered to the environment for any held        *)
(* symbol and price.  execute_buy is only reached behind the gate of       *)
(* analyze_and_trade and is modelled as part of it.  The bot runs in       *)
(* paper mode (config_models.py:34), the only mode that changes state.     *)
(***************************************************************************)
EXTENDS Integers, Sequences, FiniteSets, TLC

(***************************************************************************)
(* Bounds of the model                                                     *)
(***************************************************************************)
\* last hour the clock is advanced to
MaxTime == 36
\* closes recorded before the close operations are switched off
MaxClosed == 2
\* winning and losing closes in the histories the ledger specifications start from
MaxWins == 5
MaxLosses == 5

(***************************************************************************)
(* Program constants                                                       *)
(***************************************************************************)
InitialCapital == 1000000
max_position_size_pct == 10
max_daily_loss_pct == 5
max_drawdown_pct == 20
trailing_stop_pct == 1
risk_per_trade_pct == 2
KellyMinTrades == 10
TrailActivationPct == 2
MaxPositions == 5
ConsecutiveLosses == 5
HoursDailyLoss == 24
HoursDrawdown == 48
HoursConsecutive == 12
HoursPerDay == 24
\* circuit_breaker_until = None
NoDeadline == -1
\* lowest_price = float('inf'): above every price of the model
Infinity == 1000000000
SizeScale == 100
\* the clock advances in steps of half a breaker-day
TickHours == 12

use_kelly_criterion == TRUE
enable_trailing_stop == TRUE
\* kelly_fraction = 0.25, as a ratio
KellyFractionNum == 1
KellyFractionDen == 4

SymbolSeq == <<"BTC/USDT", "ETH/USDT">>
Symbols == {SymbolSeq[i] : i \in 1..Len(SymbolSeq)}

VARIABLES
    now,                      \* datetime.now(), in hours
    current_capital,
    peak_capital,
    daily_start_capital,
    day_start_date,
    positions,                \* EnhancedRiskManager.positions: symbol -> Position
    bot_positions,            \* keys of EnhancedTradingBot.positions (same Position objects)
    closed_positions,         \* realized_pnl of each closed Position, oldest first
    circuit_breaker_active,
    circuit_breaker_until,
    loop_pos,                 \* trading_loop: 0 at the top of a cycle, i before symbol i
    last,                     \* what the last operation returned and logged
    ml_enabled,               \* AdaptiveStrategyEngine.ml_enabled
    current_weights,          \* AdaptiveStrategyEngine.current_weights
    regime_history,           \* AdaptiveStrategyEngine.regime_history, oldest first
    selling,                  \* the execute_sell call the trading task is in, and where
    balance,                  \* Trader.balance
    trader_positions,         \* Trader.positions: symbol -> amount, entry_price, stop_loss
    trades                    \* rows of the trades table written by Trader (db.insert_trade)

vars == <<now, current_capital, peak_capital, daily_start_capital, day_start_date,
          positions, bot_positions, closed_positions, circuit_breaker_active,
          circuit_breaker_until, loop_pos, last, ml_enabled, current_weights,
          regime_history, selling, balance, trader_positions, trades>>

\* the state of the risk manager and of the bot
riskVars == <<now, current_capital, peak_capital, daily_start_capital, day_start_date,
              positions, bot_positions, closed_positions, circuit_breaker_active,
              circuit_breaker_until, loop_pos, selling>>
\* the state of the strategy engine
engineVars == <<ml_enabled, current_weights, regime_history>>
\* the state of the paper-mode Trader
traderVars == <<balance, trader_positions, trades>>

\* the trading task is in no execute_sell call
NoCall == [pc |-> 0, symbol |-> "", price |-> 0]

(***************************************************************************)
(* Trader.__init__, paper mode with the default configuration              *)
(* (trader.py:29-46).  Money is in hundredths of a cent, amounts of the    *)
(* base asset in ten-thousandths.                                          *)
(***************************************************************************)
\* Trader(mode='paper', initial_balance=10000)
initial_balance == 100000000
TraderConstructed ==
    /\ balance = initial_balance
    /\ trader_positions = << >>
    /\ trades = 0

(***************************************************************************)
(* AdaptiveStrategyEngine.__init__ (adaptive_strategy.py:53-87)            *)
(***************************************************************************)
Components == {"rsi", "macd", "bollinger", "ema_trend", "volume", "stochastic",
               "atr", "ml_prediction"}
\* weights are kept in ten-thousandths; a quotient is rounded to the nearest
\* one, as a float quotient is rounded to the nearest float
WeightScale == 10000

\* base_weights, in tenths
BaseTenths(ml) ==
    [c \in Components |->
        CASE c = "rsi" -> 10
          [] c = "macd" -> 15
          [] c = "bollinger" -> 12
          [] c = "ema_trend" -> 13
          [] c = "volume" -> 10
          [] c = "stochastic" -> 8
          [] c = "atr" -> 7
          [] c = "ml_prediction" -> IF ml THEN 20 ELSE 0]
BaseWeights(ml) == [c \in Components |-> BaseTenths(ml)[c] * (WeightScale \div 10)]
base_weights == BaseWeights(ml_enabled)

\* AdaptiveStrategyEngine(): ml_enabled defaults to True
EngineConstructed(ml) ==
    /\ ml_enabled = ml
    /\ current_weights = BaseWeights(ml)
    /\ regime_history = << >>

(***************************************************************************)
(* Arithmetic helpers                                                      *)
(***************************************************************************)
Max(a, b) == IF a >= b THEN a ELSE b
Min(a, b) == IF a <= b THEN a ELSE b
Abs(a) == IF a < 0 THEN -a ELSE a

\* <<q, r>> with r * n = q * d + r', 0 <= r' < d, for 0 <= r < d and n >= 0,
\* by doubling, so that no product is formed
RECURSIVE MulQR(_, _, _)
MulQR(r, n, d) ==
    IF n = 0 THEN <<0, 0>>
    ELSE LET h == MulQR(r, n \div 2, d)
             q2 == 2 * h[1] + (2 * h[2]) \div d
             r2 == (2 * h[2]) % d
         IN  IF n % 2 = 0 THEN <<q2, r2>>
             ELSE <<q2 + (r2 + r) \div d, (r2 + r) % d>>

\* floor(a * n / d) for d > 0, n >= 0, without forming a * n
MulDiv(a, n, d) == (a \div d) * n + MulQR(a % d, n, d)[1]

Date(t) == t \div HoursPerDay

(***************************************************************************)
(* Position (enhanced_risk_manager.py:16-47)                               *)
(***************************************************************************)
NewPosition(side, entry, size, stop, tps) ==
    [side |-> side, entry_price |-> entry, size |-> size, stop_loss |-> stop,
     take_profit |-> tps, unrealized_pnl |-> 0, trailing_stop_active |-> FALSE,
     highest_price |-> 0, lowest_price |-> Infinity]

UpdatePnl(p, price) ==
    IF p.side = "long"
    THEN [p EXCEPT !.unrealized_pnl = ((price - p.entry_price) * p.size) \div SizeScale,
                   !.highest_price = IF price > p.highest_price THEN price ELSE @]
    ELSE [p EXCEPT !.unrealized_pnl = ((p.entry_price - price) * p.size) \div SizeScale,
                   !.lowest_price = IF price < p.lowest_price THEN price ELSE @]

\* get_pnl_pct() >= pct, i.e. unrealized_pnl / (entry_price * size) * 100 >= pct
PnlPctAtLeast(p, pct) ==
    IF p.entry_price = 0 THEN 0 >= pct
    ELSE p.unrealized_pnl * 100 * SizeScale >= pct * p.entry_price * p.size

(***************************************************************************)
(* Capital figures (enhanced_risk_manager.py:504-514)                      *)
(***************************************************************************)
\* the daily-loss comparison with the limit itself excluded
DailyLossBeyond(cap, dstart, limit_num, limit_den) ==
    IF dstart = 0 THEN 0 < -limit_num
    ELSE (cap - dstart) * 100 * limit_den < -limit_num * dstart

\* get_daily_pnl_pct() <= -limit
DailyLossAtLeast(cap, dstart, limit_num, limit_den) ==
    IF dstart = 0 THEN 0 <= -limit_num
    ELSE (cap - dstart) * 100 * limit_den <= -limit_num * dstart

\* get_daily_pnl_pct() < -limit
DailyLossAbove(cap, dstart, limit_num, limit_den) ==
    IF dstart = 0 THEN 0 < -limit_num
    ELSE (cap - dstart) * 100 * limit_den < -limit_num * dstart

\* get_daily_pnl_pct() > limit
DailyGainAbove(cap, dstart, limit) ==
    IF dstart = 0 THEN 0 > limit
    ELSE (cap - dstart) * 100 > limit * dstart

\* get_current_drawdown_pct() >= limit
DrawdownAtLeast(cap, peak, limit) ==
    IF peak = 0 THEN 0 >= limit
    ELSE (peak - cap) * 100 >= limit * peak

\* get_current_drawdown_pct() > limit_num / limit_den
DrawdownAbove(cap, peak, limit_num, limit_den) ==
    IF peak = 0 THEN 0 > limit_num
    ELSE (peak - cap) * 100 * limit_den > limit_num * peak


(***************************************************************************)
(* Position sizing (enhanced_risk_manager.py:120-308)                      *)
(* A data frame df is the record [close, has_atr, atr] of its last row.    *)
(* signal_strength is an integer, signal_confidence a percentage 0..100.   *)
(***************************************************************************)
\* floor(1000 * (strength / 50) ** 0.5)
SqrtMilli == [s \in 0..100 |->
                CHOOSE r \in 0..1415 : r * r <= s * 20000 /\ (r + 1) * (r + 1) > s * 20000]

\* the USDT amount capital * max_position_size_pct / 100
CalculateFixedPositionSize(cap) == (cap * max_position_size_pct) \div 100

\* a USDT amount returned where a size in base units is expected: the number
\* is taken as it stands (1000.0 USDT is read as 1000.0 units)
UsdNumberAsSize(cents) == (cents * SizeScale) \div 100

\* a USDT amount divided by a price: base units
UsdToSize(cents, price) == MulDiv(cents, SizeScale, price)

CalculatePositionSizeVolatility(cap, df) ==
    IF ~df.has_atr THEN UsdNumberAsSize(CalculateFixedPositionSize(cap))
    ELSE IF df.atr = 0 \/ df.close = 0
         THEN UsdNumberAsSize(CalculateFixedPositionSize(cap))
    ELSE LET risk_amount == (cap * risk_per_trade_pct) \div 100
             stop_distance == df.atr * 2
             \* risk_amount / (stop_distance / price)
             position_size_usd == MulDiv(risk_amount, df.close, stop_distance)
             max_position_usd == (cap * max_position_size_pct) \div 100
         IN  IF position_size_usd > max_position_usd
             THEN UsdToSize(max_position_usd, df.close)
             ELSE UsdToSize(position_size_usd, df.close)

\* calculate_win_statistics: the counts and sums that win_rate, avg_win and
\* avg_loss are the quotients of
CalculateWinStatistics(closed) ==
    LET idx == 1..Len(closed)
        wins == {i \in idx : closed[i] > 0}
        losses == {i \in idx : closed[i] < 0}
        RECURSIVE SumIn(_, _, _)
        SumIn(S, lo, hi) ==
            IF lo > hi THEN 0
            ELSE IF lo = hi THEN (IF lo \in S THEN Abs(closed[lo]) ELSE 0)
            ELSE LET mid == (lo + hi) \div 2
                 IN  SumIn(S, lo, mid) + SumIn(S, mid + 1, hi)
        SumOver(S) == SumIn(S, 1, Len(closed))
    IN  IF Len(closed) = 0
        THEN [wr_num |-> 1, wr_den |-> 2, win_num |-> 0, win_den |-> 1,
              loss_num |-> 0, loss_den |-> 1]
        ELSE [wr_num |-> Cardinality(wins), wr_den |-> Len(closed),
              win_num |-> SumOver(wins),
              win_den |-> IF wins = {} THEN 1 ELSE Cardinality(wins),
              loss_num |-> SumOver(losses),
              loss_den |-> IF losses = {} THEN 1 ELSE Cardinality(losses)]

\* calculate_kelly_position_size, in thousandths of a percent of capital.
\* st carries win_rate = wr_num/wr_den, avg_win = win_num/win_den and
\* avg_loss = loss_num/loss_den.
KellyPctMilli(st) ==
    IF st.loss_num = 0 \/ st.wr_num = 0
    THEN (max_position_size_pct * 1000) \div 2
    ELSE IF st.win_num = 0
    \* win_loss_ratio = 0: the division raises ZeroDivisionError, and the
    \* handler returns half the maximum
    THEN (max_position_size_pct * 1000) \div 2
    ELSE LET \* kelly = win_rate - (1 - win_rate) * avg_loss / avg_win
             num == st.wr_num * st.loss_den * st.win_num
                    - (st.wr_den - st.wr_num) * st.loss_num * st.win_den
             den == st.wr_den * st.loss_den * st.win_num
             pct_milli == MulDiv(num, 100000 * KellyFractionNum, den * KellyFractionDen)
         IN  Max(1000, Min(pct_milli, max_position_size_pct * 1000))

MinSize(cap, price) == UsdToSize((cap * 1) \div 100, price)
MaxSize(cap, price) == UsdToSize((cap * max_position_size_pct) \div 100, price)

\* the multipliers of calculate_dynamic_position_size, in thousandths
StrengthMultiplier(strength) == SqrtMilli[strength]
ConfidenceMultiplier(confidence) == 500 + 5 * confidence
DrawdownMultiplier(cap, peak) ==
    IF DrawdownAbove(cap, peak, max_drawdown_pct, 2) THEN 500 ELSE 1000
PnlMultiplier(cap, dstart) ==
    IF DailyLossAbove(cap, dstart, max_daily_loss_pct, 2) THEN 500
    ELSE IF DailyGainAbove(cap, dstart, max_daily_loss_pct) THEN 1200
    ELSE 1000
KellyMultiplier(closed) ==
    IF use_kelly_criterion /\ Len(closed) >= KellyMinTrades
    THEN KellyPctMilli(CalculateWinStatistics(closed)) \div max_position_size_pct
    ELSE 1000

\* the except branch of calculate_dynamic_position_size
SizingFallback(cap, df) == UsdToSize(CalculateFixedPositionSize(cap), df.close)

\* (strength / 50) ** 0.5 of a negative strength is a complex number, and the
\* clamp max(min_size, min(position_size, max_size)) raises TypeError on it
SizingRaises(strength) == strength < 0

\* calculate_dynamic_position_size without its final clamp
DynamicSizeUnclamped(cap, peak, dstart, closed, df, strength, confidence) ==
    IF SizingRaises(strength) THEN SizingFallback(cap, df)
    ELSE LET base_size == CalculatePositionSizeVolatility(cap, df)
             m1 == StrengthMultiplier(strength)
             m2 == (m1 * ConfidenceMultiplier(confidence)) \div 1000
             m3 == (m2 * DrawdownMultiplier(cap, peak)) \div 1000
             m4 == (m3 * PnlMultiplier(cap, dstart)) \div 1000
             final_multiplier == (m4 * KellyMultiplier(closed)) \div 1000
         IN  MulDiv(base_size, final_multiplier, 1000)

CalculateDynamicPositionSize(cap, peak, dstart, closed, df, strength, confidence) ==
    IF SizingRaises(strength) THEN SizingFallback(cap, df)
    ELSE LET base_size == CalculatePositionSizeVolatility(cap, df)
             m1 == StrengthMultiplier(strength)
             m2 == (m1 * ConfidenceMultiplier(confidence)) \div 1000
             m3 == (m2 * DrawdownMultiplier(cap, peak)) \div 1000
             m4 == (m3 * PnlMultiplier(cap, dstart)) \div 1000
             final_multiplier == (m4 * KellyMultiplier(closed)) \div 1000
             position_size == MulDiv(base_size, final_multiplier, 1000)
         IN  Max(MinSize(cap, df.close), Min(position_size, MaxSize(cap, df.close)))

(***************************************************************************)
(* Stop-loss and take-profit (enhanced_risk_manager.py:310-390)            *)
(***************************************************************************)
\* the stop at twice the ATR, whatever its share of the entry price
StopLossUnclamped(entry_price, df, side) ==
    LET raw == IF df.has_atr THEN df.atr * 2 ELSE (entry_price * 2) \div 100
    IN  IF side = "long" THEN entry_price - raw ELSE entry_price + raw

CalculateStopLoss(entry_price, df, side) ==
    LET raw == IF df.has_atr THEN df.atr * 2 ELSE (entry_price * 2) \div 100
        min_stop == (entry_price * 1) \div 100
        max_stop == (entry_price * 5) \div 100
        stop_distance == Max(min_stop, Min(raw, max_stop))
    IN  IF side = "long" THEN entry_price - stop_distance
        ELSE entry_price + stop_distance

\* targets at a fixed 4% from the entry, as the exception handler returns
TakeProfitFixed(entry_price, stop_loss, side) ==
    [i \in 1..3 |-> IF side = "long" THEN (entry_price * 104) \div 100
                    ELSE (entry_price * 96) \div 100]

CalculateTakeProfitLevels(entry_price, stop_loss, side) ==
    LET risk == Abs(entry_price - stop_loss)
        multiples == <<2, 3, 5>>
    IN  [i \in 1..3 |-> IF side = "long" THEN entry_price + risk * multiples[i]
                        ELSE entry_price - risk * multiples[i]]

(***************************************************************************)
(* Circuit breaker (enhanced_risk_manager.py:445-502)                      *)
(***************************************************************************)
\* the expiry test with the deadline itself counted as passed
ExpiredAtDeadline(until, t) == until # NoDeadline /\ t >= until

\* circuit_breaker_until and datetime.now() > circuit_breaker_until
Expired(until, t) == until # NoDeadline /\ t > until

\* the early return of check_circuit_breaker: active and not yet expired
StillActive(active, until, t) == active /\ ~Expired(until, t)

DailyLossTrigger(cap, dstart) == DailyLossAtLeast(cap, dstart, max_daily_loss_pct, 1)
DrawdownTrigger(cap, peak) == DrawdownAtLeast(cap, peak, max_drawdown_pct)
ConsecutiveLossTrigger(closed) ==
    /\ Len(closed) >= ConsecutiveLosses
    /\ \A i \in (Len(closed) - ConsecutiveLosses + 1)..Len(closed) : closed[i] < 0

\* hours of the trigger check_circuit_breaker activates on, 0 when none holds
TriggerHours(cap, peak, dstart, closed) ==
    IF DailyLossTrigger(cap, dstart) THEN HoursDailyLoss
    ELSE IF DrawdownTrigger(cap, peak) THEN HoursDrawdown
    ELSE IF ConsecutiveLossTrigger(closed) THEN HoursConsecutive
    ELSE 0

\* check_circuit_breaker: the breaker fields it leaves, its return value and
\* whether it logged "Circuit breaker deactivated"
CheckCircuitBreaker(active, until, t, cap, peak, dstart, closed) ==
    IF StillActive(active, until, t)
    THEN [active |-> TRUE, until |-> until, ret |-> TRUE, deactivated |-> FALSE,
          hours |-> 0]
    ELSE LET h == TriggerHours(cap, peak, dstart, closed)
         IN  IF h > 0
             \* activate_circuit_breaker(reason, hours): positions are only logged
             THEN [active |-> TRUE, until |-> t + h, ret |-> TRUE,
                   deactivated |-> active, hours |-> h]
             ELSE [active |-> FALSE, until |-> IF active THEN NoDeadline ELSE until,
                   ret |-> FALSE, deactivated |-> active, hours |-> 0]

\* can_open_position without its first test: the breaker is checked (and may
\* change state) but its answer is not used
CanOpenPositionNoBreaker(symbol, active, until, t, cap, peak, dstart, closed, pos) ==
    LET cb == CheckCircuitBreaker(active, until, t, cap, peak, dstart, closed)
        verdict ==
            IF DailyLossTrigger(cap, dstart) THEN <<FALSE, "Daily loss limit reached">>
            ELSE IF DrawdownTrigger(cap, peak) THEN <<FALSE, "Maximum drawdown reached">>
            ELSE IF symbol \in DOMAIN pos
                 THEN <<FALSE, "Position already open for this symbol">>
            ELSE IF Cardinality(DOMAIN pos) >= MaxPositions
                 THEN <<FALSE, "Maximum positions already open">>
            ELSE <<TRUE, "OK">>
    IN  [cb |-> cb, ok |-> verdict[1], reason |-> verdict[2]]

\* can_open_position without its test of the number of open positions
CanOpenPositionUnlimited(symbol, active, until, t, cap, peak, dstart, closed, pos) ==
    LET cb == CheckCircuitBreaker(active, until, t, cap, peak, dstart, closed)
        verdict ==
            IF cb.ret THEN <<FALSE, "Circuit breaker active">>
            ELSE IF DailyLossTrigger(cap, dstart) THEN <<FALSE, "Daily loss limit reached">>
            ELSE IF DrawdownTrigger(cap, peak) THEN <<FALSE, "Maximum drawdown reached">>
            ELSE IF symbol \in DOMAIN pos
                 THEN <<FALSE, "Position already open for this symbol">>
            ELSE <<TRUE, "OK">>
    IN  [cb |-> cb, ok |-> verdict[1], reason |-> verdict[2]]

\* can_open_position(symbol): the breaker fields it leaves, and (ok, reason)
CanOpenPosition(symbol, active, until, t, cap, peak, dstart, closed, pos) ==
    LET cb == CheckCircuitBreaker(active, until, t, cap, peak, dstart, closed)
        verdict ==
            IF cb.ret THEN <<FALSE, "Circuit breaker active">>
            ELSE IF DailyLossTrigger(cap, dstart) THEN <<FALSE, "Daily loss limit reached">>
            ELSE IF DrawdownTrigger(cap, peak) THEN <<FALSE, "Maximum drawdown reached">>
            ELSE IF symbol \in DOMAIN pos
                 THEN <<FALSE, "Position already open for this symbol">>
            ELSE IF Cardinality(DOMAIN pos) >= MaxPositions
                 THEN <<FALSE, "Maximum positions already open">>
            ELSE <<TRUE, "OK">>
    IN  [cb |-> cb, ok |-> verdict[1], reason |-> verdict[2]]

\* reset_daily_metrics without its date test
ResetDailyAlways(t, cap, dstart, day) == <<cap, Date(t)>>

\* reset_daily_metrics: (daily_start_capital, day_start_date) it leaves
ResetDailyMetrics(t, cap, dstart, day) ==
    IF Date(t) # day THEN <<cap, Date(t)>> ELSE <<dstart, day>>

(***************************************************************************)
(* Trailing stop (enhanced_risk_manager.py:392-443)                        *)
(***************************************************************************)
\* the candidate stop of a long: highest_price * (1 - trailing_stop_pct / 100)
TrailStopLong(p) == (p.highest_price * (100 - trailing_stop_pct)) \div 100
\* the candidate stop of a short: lowest_price * (1 + trailing_stop_pct / 100)
TrailStopShort(p) == (p.lowest_price \div 100) * (100 + trailing_stop_pct)
                     + ((p.lowest_price % 100) * (100 + trailing_stop_pct)) \div 100

\* the activation test with the threshold itself excluded
TrailActivateAbove(p) ==
    p.trailing_stop_active
    \/ (p.entry_price # 0
        /\ p.unrealized_pnl * 100 * SizeScale
             > TrailActivationPct * p.entry_price * p.size)

\* trailing_stop_active after the activation test of update_trailing_stop
TrailActivate(p) ==
    p.trailing_stop_active \/ PnlPctAtLeast(p, TrailActivationPct)

\* update_trailing_stop that trails whether or not the trailing stop is active
UpdateTrailingStopUngated(p) ==
    LET q == [p EXCEPT !.trailing_stop_active = TrailActivate(p)]
    IN  IF q.side = "long"
        THEN IF TrailStopLong(q) > q.stop_loss
             THEN [q EXCEPT !.stop_loss = TrailStopLong(q)] ELSE q
        ELSE IF TrailStopShort(q) < q.stop_loss
             THEN [q EXCEPT !.stop_loss = TrailStopShort(q)] ELSE q

\* update_trailing_stop on the Position p (symbol held, trailing enabled)
UpdateTrailingStopOf(p) ==
    LET act == TrailActivate(p)
        q == [p EXCEPT !.trailing_stop_active = act]
    IN  IF ~act THEN q
        ELSE IF q.side = "long"
             THEN IF TrailStopLong(q) > q.stop_loss
                  THEN [q EXCEPT !.stop_loss = TrailStopLong(q)] ELSE q
             ELSE IF TrailStopShort(q) < q.stop_loss
                  THEN [q EXCEPT !.stop_loss = TrailStopShort(q)] ELSE q

\* update_trailing_stop(symbol, current_price): the positions map it leaves
UpdateTrailingStop(pos, symbol) ==
    IF symbol \notin DOMAIN pos \/ ~enable_trailing_stop THEN pos
    ELSE [pos EXCEPT ![symbol] = UpdateTrailingStopOf(pos[symbol])]

(***************************************************************************)
(* The ledger operations of the bot (main_enhanced.py:243-402).  A ledger  *)
(* L is the record [cap, peak, closed, pos, bot] of current_capital,       *)
(* peak_capital, closed_positions and the two position maps.               *)
(***************************************************************************)
Ledger == [cap |-> current_capital, peak |-> peak_capital,
           closed |-> closed_positions, pos |-> positions, bot |-> bot_positions]

Without(f, k) == [x \in DOMAIN f \ {k} |-> f[x]]
With(f, k, v) == [x \in DOMAIN f \cup {k} |-> IF x = k THEN v ELSE f[x]]

\* the capital bookkeeping of execute_sell without its peak update
RecordCloseKeepingPeak(L, pnl) == [L EXCEPT !.cap = L.cap + pnl, !.closed = Append(L.closed, pnl)]

\* the capital bookkeeping of execute_sell for a realized pnl
RecordClose(L, pnl) ==
    LET cap == L.cap + pnl
    IN  [L EXCEPT !.cap = cap,
                  !.closed = Append(L.closed, pnl),
                  !.peak = IF cap > L.peak THEN cap ELSE L.peak]

\* execute_sell(symbol, current_price, reason), paper mode
ExecuteSellOn(L, symbol, price) ==
    IF symbol \notin L.bot THEN L
    ELSE LET p == UpdatePnl(L.pos[symbol], price)
             L1 == RecordClose(L, p.unrealized_pnl)
         IN  [L1 EXCEPT !.pos = Without(L.pos, symbol),
                        !.bot = L.bot \ {symbol}]

\* the exit test of update_position for a long: stop-loss, then take-profits
ExitTriggered(p, price) ==
    /\ p.side = "long"
    /\ \/ price <= p.stop_loss
       \/ \E i \in 1..Len(p.take_profit) : price >= p.take_profit[i]

\* update_position(symbol, current_price)
UpdatePositionOn(L, symbol, price) ==
    IF symbol \notin L.bot THEN L
    ELSE LET p == UpdatePnl(L.pos[symbol], price)
             L1 == [L EXCEPT !.pos[symbol] = p]
         IN  IF ExitTriggered(p, price) THEN ExecuteSellOn(L1, symbol, price)
             ELSE [L1 EXCEPT !.pos = UpdateTrailingStop(L1.pos, symbol)]

\* execute_buy(symbol, df, signal, current_price), paper mode
ExecuteBuyOn(L, dstart, symbol, df, sig, price) ==
    LET size == CalculateDynamicPositionSize(L.cap, L.peak, dstart, L.closed, df,
                                             sig.strength, sig.confidence)
        stop == CalculateStopLoss(price, df, "long")
        tps == CalculateTakeProfitLevels(price, stop, "long")
        p == NewPosition("long", price, size, stop, tps)
    IN  [L EXCEPT !.pos = With(L.pos, symbol, p), !.bot = L.bot \cup {symbol}]

\* the trading logic of analyze_and_trade once can_open_position said OK
TradeOn(L, dstart, symbol, df, sig) ==
    LET price == df.close
        L1 == IF sig.action = "BUY" /\ symbol \notin L.bot
              THEN ExecuteBuyOn(L, dstart, symbol, df, sig, price)
              ELSE IF sig.action = "SELL" /\ symbol \in L.bot
                   THEN ExecuteSellOn(L, symbol, price)
                   ELSE L
    IN  IF symbol \in L1.bot THEN UpdatePositionOn(L1, symbol, price) ELSE L1

(***************************************************************************)
(* Inputs                                                                  *)
(***************************************************************************)
\* prices at which the environment closes or ticks a held position
Prices == {5000, 10200}
\* last rows of data frames: entries are made at 100.00, with or without ATR
EntryFrames == {[close |-> 10000, has_atr |-> TRUE, atr |-> 100],
                [close |-> 10000, has_atr |-> FALSE, atr |-> 0]}
OtherFrames == {[close |-> p, has_atr |-> TRUE, atr |-> 100] : p \in Prices}
Buy == [action |-> "BUY", strength |-> 100, confidence |-> 100]
Sell == [action |-> "SELL", strength |-> 0, confidence |-> 100]
Hold == [action |-> "HOLD", strength |-> 50, confidence |-> 0]
\* (data frame, ensemble signal) pairs handed to analyze_and_trade
TradeInputs == (EntryFrames \X {Buy, Sell, Hold}) \cup (OtherFrames \X {Sell, Hold})

\* what an operation returned and logged: its name, its verdict and reason,
\* whether "Circuit breaker deactivated" was logged, and for a sizing call the
\* size returned and the price it was asked at
Returned(op, ok, reason, deactivated) ==
    [op |-> op, ok |-> ok, reason |-> reason, deactivated |-> deactivated,
     size |-> 0, price |-> 0]
Sized(size, price, raised) ==
    [op |-> "calculate_dynamic_position_size", ok |-> ~raised,
     reason |-> IF raised THEN "Error calculating dynamic position size" ELSE "",
     deactivated |-> FALSE, size |-> size, price |-> price]

(***************************************************************************)
(* Actions                                                                 *)
(***************************************************************************)
Init ==
    /\ selling = NoCall
    /\ TraderConstructed
    /\ now = 0
    /\ current_capital = InitialCapital
    /\ peak_capital = InitialCapital
    /\ daily_start_capital = InitialCapital
    /\ day_start_date = Date(0)
    /\ positions = << >>
    /\ bot_positions = {}
    /\ closed_positions = << >>
    /\ circuit_breaker_active = FALSE
    /\ circuit_breaker_until = NoDeadline
    /\ loop_pos = 0
    /\ last = Returned("init", TRUE, "", FALSE)
    /\ EngineConstructed(TRUE)

\* the clock advances between two operations
Tick ==
    /\ now + TickHours <= MaxTime
    /\ now' = now + TickHours
    /\ UNCHANGED <<current_capital, peak_capital, daily_start_capital, day_start_date,
                   positions, bot_positions, closed_positions, circuit_breaker_active,
                   circuit_breaker_until, loop_pos, last>>
    /\ UNCHANGED <<selling, engineVars, traderVars>>

\* trading_loop, top of a cycle: reset_daily_metrics, then check_circuit_breaker;
\* an active breaker skips the cycle
LoopTop ==
    /\ loop_pos = 0
    /\ LET rd == ResetDailyMetrics(now, current_capital, daily_start_capital,
                                   day_start_date)
           cb == CheckCircuitBreaker(circuit_breaker_active, circuit_breaker_until, now,
                                     current_capital, peak_capital, rd[1],
                                     closed_positions)
       IN  /\ daily_start_capital' = rd[1]
           /\ day_start_date' = rd[2]
           /\ circuit_breaker_active' = cb.active
           /\ circuit_breaker_until' = cb.until
           /\ loop_pos' = IF cb.ret THEN 0 ELSE 1
           /\ last' = Returned("trading_loop", ~cb.ret,
                               IF cb.ret THEN "Circuit breaker active" ELSE "OK",
                               cb.deactivated)
    /\ UNCHANGED <<now, current_capital, peak_capital, positions, bot_positions,
                   closed_positions>>
    /\ UNCHANGED <<selling, engineVars, traderVars>>

NextLoopPos == IF loop_pos = Len(SymbolSeq) THEN 0 ELSE loop_pos + 1

\* analyze_and_trade(symbol) when update_market_data returned no data
AnalyzeNoData ==
    /\ loop_pos \in 1..Len(SymbolSeq)
    /\ loop_pos' = NextLoopPos
    /\ last' = Returned("analyze_and_trade", FALSE, "No data", FALSE)
    /\ UNCHANGED <<now, current_capital, peak_capital, daily_start_capital,
                   day_start_date, positions, bot_positions, closed_positions,
                   circuit_breaker_active, circuit_breaker_until>>
    /\ UNCHANGED <<selling, engineVars, traderVars>>

\* analyze_and_trade(symbol) on the data frame df and the ensemble signal sig
AnalyzeAndTrade(df, sig) ==
    /\ loop_pos \in 1..Len(SymbolSeq)
    /\ LET symbol == SymbolSeq[loop_pos]
           can == CanOpenPosition(symbol, circuit_breaker_active, circuit_breaker_until,
                                  now, current_capital, peak_capital,
                                  daily_start_capital, closed_positions, positions)
           L == IF can.ok THEN TradeOn(Ledger, daily_start_capital, symbol, df, sig)
                ELSE Ledger
       IN  /\ circuit_breaker_active' = can.cb.active
           /\ circuit_breaker_until' = can.cb.until
           /\ current_capital' = L.cap
           /\ peak_capital' = L.peak
           /\ closed_positions' = L.closed
           /\ positions' = L.pos
           /\ bot_positions' = L.bot
           /\ last' = Returned("analyze_and_trade", can.ok, can.reason,
                               can.cb.deactivated)
    /\ loop_pos' = NextLoopPos
    /\ UNCHANGED <<now, daily_start_capital, day_start_date>>
    /\ UNCHANGED <<selling, engineVars, traderVars>>

\* execute_sell(symbol, price, reason) called on a held symbol
ExecuteSell(symbol, price) ==
    /\ symbol \in bot_positions
    /\ Len(closed_positions) < MaxClosed
    /\ LET L == ExecuteSellOn(Ledger, symbol, price)
       IN  /\ current_capital' = L.cap
           /\ peak_capital' = L.peak
           /\ closed_positions' = L.closed
           /\ positions' = L.pos
           /\ bot_positions' = L.bot
    /\ last' = Returned("execute_sell", TRUE, "", FALSE)
    /\ UNCHANGED <<now, daily_start_capital, day_start_date, circuit_breaker_active,
                   circuit_breaker_until, loop_pos>>
    /\ UNCHANGED <<selling, engineVars, traderVars>>

\* update_position(symbol, price) called on a held symbol
UpdatePosition(symbol, price) ==
    /\ symbol \in bot_positions
    /\ Len(closed_positions) < MaxClosed
    /\ LET L == UpdatePositionOn(Ledger, symbol, price)
       IN  /\ current_capital' = L.cap
           /\ peak_capital' = L.peak
           /\ closed_positions' = L.closed
           /\ positions' = L.pos
           /\ bot_positions' = L.bot
    /\ last' = Returned("update_position", TRUE, "", FALSE)
    /\ UNCHANGED <<now, daily_start_capital, day_start_date, circuit_breaker_active,
                   circuit_breaker_until, loop_pos>>
    /\ UNCHANGED <<selling, engineVars, traderVars>>

Next ==
    \/ Tick
    \/ LoopTop
    \/ AnalyzeNoData
    \/ \E in \in TradeInputs : AnalyzeAndTrade(in[1], in[2])
    \/ \E symbol \in Symbols, price \in Prices : ExecuteSell(symbol, price)
    \/ \E symbol \in Symbols, price \in Prices : UpdatePosition(symbol, price)

Spec == Init /\ [][Next]_vars

(***************************************************************************)
(* Properties of the trading loop (specification Spec)                     *)
(***************************************************************************)
\* the breaker is active and its expiry timestamp has not passed
BreakerHolds == StillActive(circuit_breaker_active, circuit_breaker_until, now)

\* can_open_position(symbol) in the current state
CanOpenNow(symbol) ==
    CanOpenPosition(symbol, circuit_breaker_active, circuit_breaker_until, now,
                    current_capital, peak_capital, daily_start_capital,
                    closed_positions, positions)

\* C1: in every reachable state in which the breaker is active and its expiry
\* has not passed, can_open_position refuses every symbol with the breaker's
\* reason, and no step taken from such a state adds a symbol to the open
\* positions of the risk manager or of the bot.
C1_NoEntryWhileBreakerActive ==
    /\ [](BreakerHolds =>
            \A symbol \in Symbols :
                /\ ~CanOpenNow(symbol).ok
                /\ CanOpenNow(symbol).reason = "Circuit breaker active")
    /\ [][BreakerHolds =>
            /\ DOMAIN positions' \subseteq DOMAIN positions
            /\ bot_positions' \subseteq bot_positions]_vars

\* an analyze_and_trade was refused by the unexpired breaker while a position is held
C1_RefusedWhileActive ==
    /\ BreakerHolds
    /\ last.op = "analyze_and_trade"
    /\ last.reason = "Circuit breaker active"
    /\ positions # << >>

\* C3: in every step in which circuit_breaker_active goes from true to false
\* the time is strictly later than circuit_breaker_until and the step is a
\* breaker check (at the top of the loop or inside can_open_position); a step
\* of execute_sell, update_position or the clock never clears the breaker, and
\* neither does the daily rollover or an entry (sizing included) that happens
\* before the expiry.
C3_ClearedOnlyByExpiry ==
    [][(circuit_breaker_active /\ ~circuit_breaker_active') =>
          /\ circuit_breaker_until # NoDeadline
          /\ now > circuit_breaker_until
          /\ now' = now
          /\ last'.op \in {"trading_loop", "analyze_and_trade"}
          /\ last'.deactivated]_vars

\* the top of a cycle found the breaker expired and cleared it
C3_ClearedAfterExpiry ==
    /\ ~circuit_breaker_active
    /\ last.op = "trading_loop"
    /\ last.deactivated
    /\ circuit_breaker_until = NoDeadline

\* C5: a cycle of the trading loop that starts with the breaker already active
\* (the first opportunity after the activation) leaves no position open.
C5_FlattenedAtNextCycle ==
    [][(/\ loop_pos = 0
        /\ circuit_breaker_active
        /\ now' = now
        /\ last'.op = "trading_loop") => positions' = << >>]_vars

\* C6: an evaluation cycle of a symbol that holds a long position, at a price
\* at or below its stop_loss or at or above a take-profit level, with the
\* breaker clear and no trigger holding, closes the position in that cycle.
C6_ExitCheckedEveryCycle ==
    [][\A in \in TradeInputs :
          (/\ loop_pos \in 1..Len(SymbolSeq)
           /\ SymbolSeq[loop_pos] \in DOMAIN positions
           /\ ExitTriggered(positions[SymbolSeq[loop_pos]], in[1].close)
           /\ ~circuit_breaker_active
           /\ TriggerHours(current_capital, peak_capital, daily_start_capital,
                           closed_positions) = 0
           /\ AnalyzeAndTrade(in[1], in[2]))
          => /\ SymbolSeq[loop_pos] \notin DOMAIN positions'
             /\ Len(closed_positions') = Len(closed_positions) + 1]_vars

(***************************************************************************)
(* The risk manager on its own (specification BreakerSpec): its public     *)
(* methods reset_daily_metrics, check_circuit_breaker and                  *)
(* can_open_position, called in any order, from the ledger left by a       *)
(* history of closes.                                                      *)
(***************************************************************************)
WinAmounts == {2000, 30000}
LossAmounts == {1000, 10000, 50000}
Repeat(x, n) == [i \in 1..n |-> x]

\* closed histories: a run of wins and a run of losses, in either order
Histories ==
    UNION {{Repeat(w, nw) \o Repeat(-l, nl), Repeat(-l, nl) \o Repeat(w, nw)} :
             <<nw, nl, w, l>> \in (0..MaxWins) \X (0..MaxLosses) \X WinAmounts
                                  \X LossAmounts}

\* the ledger after the closes of pnls, from construction
RECURSIVE AfterCloses(_, _)
AfterCloses(L, pnls) ==
    IF pnls = << >> THEN L
    ELSE AfterCloses(RecordClose(L, Head(pnls)), Tail(pnls))

Constructed == [cap |-> InitialCapital, peak |-> InitialCapital, closed |-> << >>,
                pos |-> << >>, bot |-> {}]

\* a ledger with a history of closes, made either today (the day started at
\* the initial capital) or before today's rollover
LedgerInit ==
    /\ selling = NoCall
    /\ TraderConstructed
    /\ \E h \in Histories, rolled \in BOOLEAN :
        LET L == AfterCloses(Constructed, h)
        IN  /\ now = 0
            /\ current_capital = L.cap
            /\ peak_capital = L.peak
            /\ daily_start_capital = IF rolled THEN L.cap ELSE InitialCapital
            /\ day_start_date = Date(0)
            /\ positions = << >>
            /\ bot_positions = {}
            /\ closed_positions = L.closed
            /\ circuit_breaker_active = FALSE
            /\ circuit_breaker_until = NoDeadline
            /\ loop_pos = 0
            /\ last = Returned("init", TRUE, "", FALSE)
            /\ EngineConstructed(TRUE)

\* reset_daily_metrics()
ResetDaily ==
    /\ LET rd == ResetDailyMetrics(now, current_capital, daily_start_capital,
                                   day_start_date)
       IN  /\ daily_start_capital' = rd[1]
           /\ day_start_date' = rd[2]
    /\ last' = Returned("reset_daily_metrics", TRUE, "", FALSE)
    /\ UNCHANGED <<now, current_capital, peak_capital, positions, bot_positions,
                   closed_positions, circuit_breaker_active, circuit_breaker_until,
                   loop_pos>>
    /\ UNCHANGED <<selling, engineVars, traderVars>>

\* check_circuit_breaker()
CheckBreaker ==
    /\ LET cb == CheckCircuitBreaker(circuit_breaker_active, circuit_breaker_until, now,
                                     current_capital, peak_capital, daily_start_capital,
                                     closed_positions)
       IN  /\ circuit_breaker_active' = cb.active
           /\ circuit_breaker_until' = cb.until
           /\ last' = Returned("check_circuit_breaker", ~cb.ret,
                               IF cb.ret THEN "Circuit breaker active" ELSE "OK",
                               cb.deactivated)
    /\ UNCHANGED <<now, current_capital, peak_capital, daily_start_capital,
                   day_start_date, positions, bot_positions, closed_positions, loop_pos>>
    /\ UNCHANGED <<selling, engineVars, traderVars>>

\* can_open_position(symbol)
RequestEntry(symbol) ==
    /\ LET can == CanOpenPosition(symbol, circuit_breaker_active, circuit_breaker_until,
                                  now, current_capital, peak_capital,
                                  daily_start_capital, closed_positions, positions)
       IN  /\ circuit_breaker_active' = can.cb.active
           /\ circuit_breaker_until' = can.cb.until
           /\ last' = Returned("can_open_position", can.ok, can.reason,
                               can.cb.deactivated)
    /\ UNCHANGED <<now, current_capital, peak_capital, daily_start_capital,
                   day_start_date, positions, bot_positions, closed_positions, loop_pos>>
    /\ UNCHANGED <<selling, engineVars, traderVars>>

BreakerNext ==
    \/ Tick
    \/ ResetDaily
    \/ CheckBreaker
    \/ \E symbol \in Symbols : RequestEntry(symbol)

BreakerSpec == LedgerInit /\ [][BreakerNext]_vars

\* the three triggers, written out on the state
DailyLossReached ==
    (current_capital - daily_start_capital) * 100
        <= -max_daily_loss_pct * daily_start_capital
DrawdownReached ==
    (peak_capital - current_capital) * 100 >= max_drawdown_pct * peak_capital
FiveLossesInARow ==
    /\ Len(closed_positions) >= 5
    /\ \A i \in 1..Len(closed_positions) :
          i > Len(closed_positions) - 5 => closed_positions[i] < 0

\* the breaker is now active until now + hours, the request was refused, and
\* so would be a request for any symbol made right after it
ActivatedFor(hours) ==
    /\ circuit_breaker_active'
    /\ circuit_breaker_until' = now + hours
    /\ ~last'.ok
    /\ \A symbol \in Symbols :
          ~CanOpenPosition(symbol, circuit_breaker_active', circuit_breaker_until', now',
                           current_capital', peak_capital', daily_start_capital',
                           closed_positions', positions').ok

\* C2 (as amended): a can_open_position evaluated while the breaker is not
\* active activates it when a trigger holds, with the duration of the first
\* trigger that holds in the order daily loss (24h, equality included),
\* drawdown (48h), five losses in a row (12h); the request is refused and so
\* is any request right after it.
C2_TriggerActivates ==
    [][((\E symbol \in Symbols : RequestEntry(symbol)) /\ ~circuit_breaker_active) =>
          /\ DailyLossReached => ActivatedFor(24)
          /\ (~DailyLossReached /\ DrawdownReached) => ActivatedFor(48)
          /\ (~DailyLossReached /\ ~DrawdownReached /\ FiveLossesInARow)
                => ActivatedFor(12)]_vars

\* a request activated the breaker for 24h on a daily loss exactly at the limit
C2_ActivatedAtExactLimit ==
    /\ last.op = "can_open_position"
    /\ ~last.ok
    /\ circuit_breaker_active
    /\ circuit_breaker_until = now + 24
    /\ (current_capital - daily_start_capital) * 100
          = -max_daily_loss_pct * daily_start_capital

\* C2 (as stated): each trigger that holds gives its own duration.
C2_EachTriggerItsDuration ==
    [][((\E symbol \in Symbols : RequestEntry(symbol)) /\ ~circuit_breaker_active) =>
          /\ DailyLossReached => ActivatedFor(24)
          /\ DrawdownReached => ActivatedFor(48)
          /\ FiveLossesInARow => ActivatedFor(12)]_vars

\* C4: a breaker check made after the expiry timestamp has passed, the daily
\* rollover done, leaves the breaker clear and does not answer "Circuit
\* breaker active".
C4_ExpiredBreakerClears ==
    [][(/\ CheckBreaker \/ \E symbol \in Symbols : RequestEntry(symbol)
        /\ circuit_breaker_active
        /\ circuit_breaker_until # NoDeadline
        /\ now > circuit_breaker_until
        /\ day_start_date = Date(now))
          => /\ ~circuit_breaker_active'
             /\ last'.reason # "Circuit breaker active"]_vars

(***************************************************************************)
(* Price updates of one open position (specification TrailSpec):           *)
(* Position.update_pnl and update_trailing_stop, called in any order.      *)
(***************************************************************************)
TrailPrices == {9700, 9800, 9900, 10100, 10200, 10300}
TrailFrames == EntryFrames \cup {[close |-> 10000, has_atr |-> TRUE, atr |-> 0]}
Weak == [action |-> "BUY", strength |-> 50, confidence |-> 0]

\* one position, long or short, entered at 100.00 with the planned stop and targets
TrailInit ==
    /\ selling = NoCall
    /\ TraderConstructed
    /\ \E symbol \in Symbols, side \in {"long", "short"}, df \in TrailFrames,
       sig \in {Buy, Weak} :
        LET size == CalculateDynamicPositionSize(InitialCapital, InitialCapital,
                                                 InitialCapital, << >>, df,
                                                 sig.strength, sig.confidence)
            stop == CalculateStopLoss(df.close, df, side)
            tps == CalculateTakeProfitLevels(df.close, stop, side)
        IN  /\ positions = (symbol :> NewPosition(side, df.close, size, stop, tps))
            /\ bot_positions = {symbol}
            /\ now = 0
            /\ current_capital = InitialCapital
            /\ peak_capital = InitialCapital
            /\ daily_start_capital = InitialCapital
            /\ day_start_date = Date(0)
            /\ closed_positions = << >>
            /\ circuit_breaker_active = FALSE
            /\ circuit_breaker_until = NoDeadline
            /\ loop_pos = 0
            /\ last = Returned("init", TRUE, "", FALSE)
            /\ EngineConstructed(TRUE)

\* positions[symbol].update_pnl(price)
UpdatePnlOp(symbol, price) ==
    /\ symbol \in DOMAIN positions
    /\ positions' = [positions EXCEPT ![symbol] = UpdatePnl(@, price)]
    /\ last' = Returned("update_pnl", TRUE, "", FALSE)
    /\ UNCHANGED <<now, current_capital, peak_capital, daily_start_capital,
                   day_start_date, bot_positions, closed_positions,
                   circuit_breaker_active, circuit_breaker_until, loop_pos>>
    /\ UNCHANGED <<selling, engineVars, traderVars>>

\* update_trailing_stop(symbol, current_price); the price argument is not read
UpdateTrailingStopOp(symbol) ==
    /\ positions' = UpdateTrailingStop(positions, symbol)
    /\ last' = Returned("update_trailing_stop", TRUE, "", FALSE)
    /\ UNCHANGED <<now, current_capital, peak_capital, daily_start_capital,
                   day_start_date, bot_positions, closed_positions,
                   circuit_breaker_active, circuit_breaker_until, loop_pos>>
    /\ UNCHANGED <<selling, engineVars, traderVars>>

TrailNext ==
    \/ \E symbol \in Symbols, price \in TrailPrices : UpdatePnlOp(symbol, price)
    \/ \E symbol \in Symbols : UpdateTrailingStopOp(symbol)

TrailSpec == TrailInit /\ [][TrailNext]_vars

\* C7: over any sequence of update_pnl and update_trailing_stop calls the
\* stop_loss of a long never decreases, the stop_loss of a short never
\* increases, and a call that leaves trailing_stop_active false leaves
\* stop_loss as it was.
C7_StopMovesOneWay ==
    [][\A symbol \in DOMAIN positions \cap DOMAIN positions' :
          LET p == positions[symbol]
              q == positions'[symbol]
          IN  /\ p.side = "long" => q.stop_loss >= p.stop_loss
              /\ p.side = "short" => q.stop_loss <= p.stop_loss
              /\ ~q.trailing_stop_active => q.stop_loss = p.stop_loss]_vars

\* a long whose stop was trailed up to 1% under its high of 103.00 and stays
\* there with the price back at 101.00
C7_TrailedStopKept ==
    \E symbol \in DOMAIN positions :
        /\ positions[symbol].side = "long"
        /\ positions[symbol].highest_price = 10300
        /\ positions[symbol].stop_loss = 10197
        /\ positions[symbol].unrealized_pnl * SizeScale = 100 * positions[symbol].size
        /\ last.op = "update_trailing_stop"

\* unrealized profit of p at least 2% of its entry notional
ProfitReachedThreshold(p) ==
    /\ p.entry_price # 0
    /\ p.unrealized_pnl * 100 * SizeScale >= 2 * p.entry_price * p.size

\* C8: an update_trailing_stop call on an inactive position activates the
\* trailing stop exactly when the unrealized profit has reached 2% of the
\* entry notional; no other step changes trailing_stop_active, and no step
\* takes it from active back to inactive.
C8_TrailingActivation ==
    [][\A symbol \in DOMAIN positions \cap DOMAIN positions' :
          LET p == positions[symbol]
              q == positions'[symbol]
          IN  /\ p.trailing_stop_active => q.trailing_stop_active
              /\ UpdateTrailingStopOp(symbol) =>
                    (q.trailing_stop_active
                        <=> (p.trailing_stop_active \/ ProfitReachedThreshold(p)))
              /\ ~UpdateTrailingStopOp(symbol) =>
                    q.trailing_stop_active = p.trailing_stop_active]_vars

\* a long activated with its profit exactly at 2% (price 102.00, entry 100.00)
C8_ActivatedAtThreshold ==
    \E symbol \in DOMAIN positions :
        /\ positions[symbol].side = "long"
        /\ positions[symbol].trailing_stop_active
        /\ positions[symbol].highest_price = 10200
        /\ last.op = "update_trailing_stop"

(***************************************************************************)
(* Position sizing (specification SizerSpec):                              *)
(* calculate_dynamic_position_size called on the ledgers of LedgerInit.    *)
(***************************************************************************)
\* last rows with the ATR narrow, wide, zero and absent, and a second price
SizerFrames ==
    {[close |-> 10000, has_atr |-> a[1], atr |-> a[2]] :
        a \in {<<TRUE, 100>>, <<TRUE, 2000>>, <<TRUE, 0>>, <<FALSE, 0>>}}
    \cup {[close |-> 5000, has_atr |-> TRUE, atr |-> 100]}
\* signal strengths, with one below the documented range 0..100
Strengths == {-1, 0, 50, 100}
\* signal confidences, in percent
Confidences == {0, 100}

\* calculate_dynamic_position_size(symbol, df, signal_strength, signal_confidence)
SizeRequest(df, strength, confidence) ==
    /\ last' = Sized(CalculateDynamicPositionSize(current_capital, peak_capital,
                                                  daily_start_capital, closed_positions,
                                                  df, strength, confidence),
                     df.close, SizingRaises(strength))
    /\ UNCHANGED <<now, current_capital, peak_capital, daily_start_capital,
                   day_start_date, positions, bot_positions, closed_positions,
                   circuit_breaker_active, circuit_breaker_until, loop_pos>>
    /\ UNCHANGED <<selling, engineVars, traderVars>>

SizerNext ==
    \E df \in SizerFrames, strength \in Strengths, confidence \in Confidences :
        SizeRequest(df, strength, confidence)

SizerSpec == LedgerInit /\ [][SizerNext]_vars

\* 1% and max_position_size_pct% of capital at a price, in size units
OnePercentAt(price) == MulDiv(current_capital \div 100, SizeScale, price)
MaxPercentAt(price) ==
    MulDiv((current_capital * max_position_size_pct) \div 100, SizeScale, price)

\* C9: every size calculate_dynamic_position_size returns, on the normal path
\* and on the exception path, is non-negative and lies between 1% of capital
\* / price and max_position_size_pct% of capital / price.
C9_SizeWithinBounds ==
    last.op = "calculate_dynamic_position_size" =>
        /\ last.size >= 0
        /\ last.size >= OnePercentAt(last.price)
        /\ last.size <= MaxPercentAt(last.price)

\* a size raised to the 1% floor by the clamp
C9_ClampedToFloor ==
    /\ last.op = "calculate_dynamic_position_size"
    /\ last.ok
    /\ last.size = OnePercentAt(last.price)
    /\ last.size < MaxPercentAt(last.price)

RollingWindow == 20
Warm(df) == df.rows >= RollingWindow
\* pct_change().tail(20).std() is NaN on fewer than three rows
HasReturnsStd(df) == df.rows >= 3

(***************************************************************************)
(* detect_market_regime (adaptive_strategy.py:89-186)                      *)
(***************************************************************************)
Volatilities == {"low", "medium", "high"}
Trends == {"bullish", "bearish", "ranging"}
Volumes == {"low", "normal", "high"}
MarketRegime(volatility, trend, volume, confidence) ==
    [volatility |-> volatility, trend |-> trend, volume |-> volume,
     confidence |-> confidence]
\* the 27 regimes, at a confidence in percent
Regimes(confidence) ==
    {MarketRegime(v, t, o, confidence) : v \in Volatilities, t \in Trends, o \in Volumes}

\* iloc[-1] on an empty frame raises IndexError, and df['close'] without the
\* column raises KeyError, in the branches that read them
DetectRaises(df) ==
    \/ df.rows = 0
    \/ "atr" \notin df.cols /\ "close" \notin df.cols
    \/ ~("ema_12" \in df.cols /\ "ema_26" \in df.cols) /\ "close" \notin df.cols

DetectVolatility(df) ==
    IF "atr" \in df.cols
    THEN IF Warm(df) /\ df.avg_atr > 0
         THEN IF 10 * df.atr > 15 * df.avg_atr THEN "high"
              ELSE IF 10 * df.atr < 7 * df.avg_atr THEN "low"
              ELSE "medium"
         ELSE "medium"
    ELSE IF ~HasReturnsStd(df) THEN "medium"
         ELSE IF df.returns_std > 300 THEN "high"
         ELSE IF df.returns_std < 100 THEN "low"
         ELSE "medium"

\* ema_26 and sma_20 are prices, hence positive
DetectTrend(df) ==
    IF "ema_12" \in df.cols /\ "ema_26" \in df.cols
    THEN IF (df.ema_12 - df.ema_26) * 100 > 2 * df.ema_26 THEN "bullish"
         ELSE IF (df.ema_12 - df.ema_26) * 100 < -2 * df.ema_26 THEN "bearish"
         ELSE "ranging"
    ELSE IF ~Warm(df) THEN "ranging"
         ELSE IF 100 * df.close > 102 * df.sma_20 THEN "bullish"
         ELSE IF 100 * df.close < 98 * df.sma_20 THEN "bearish"
         ELSE "ranging"

DetectVolume(df) ==
    IF "volume" \in df.cols
    THEN IF Warm(df) /\ df.avg_volume > 0
         THEN IF 10 * df.volume > 15 * df.avg_volume THEN "high"
              ELSE IF 10 * df.volume < 7 * df.avg_volume THEN "low"
              ELSE "normal"
         ELSE "normal"
    ELSE "normal"

\* the columns whose presence makes the confidence
ConfidenceColumns == {"atr", "ema_12", "volume", "rsi"}
AvailableIndicators(df) == Cardinality(ConfidenceColumns \cap df.cols)
\* a confidence that ignores the columns
HalfConfidence(df) == 50
\* available_indicators / 4.0, in percent
CountConfidence(df) == (AvailableIndicators(df) * 100) \div 4

\* the regime returned by the exception handler, confidence 0.5
DetectFallback == MarketRegime("medium", "ranging", "normal", 50)

DetectMarketRegimeOf(df) ==
    MarketRegime(DetectVolatility(df), DetectTrend(df), DetectVolume(df),
                 CountConfidence(df))

\* the regime returned for a frame
DetectMarketRegime(df) ==
    IF DetectRaises(df) THEN DetectFallback ELSE DetectMarketRegimeOf(df)

\* regime_history after the call: a detected regime is appended and the list
\* cut to its last 100 entries; a failed detection appends nothing
RegimeHistoryCap == 100
LastN(seq, n) ==
    IF Len(seq) <= n THEN seq ELSE SubSeq(seq, Len(seq) - n + 1, Len(seq))
HistoryAfterDetect(history, df) ==
    IF DetectRaises(df) THEN history
    ELSE LastN(Append(history, DetectMarketRegimeOf(df)), RegimeHistoryCap)


(***************************************************************************)
(* adjust_thresholds_for_volatility (adaptive_strategy.py:188-217)         *)
(***************************************************************************)
base_rsi_oversold == 30
base_rsi_overbought == 70
volatility_adjustment == TRUE
\* <<oversold, overbought>>
AdjustThresholdsForVolatility(regime) ==
    IF ~volatility_adjustment THEN <<base_rsi_oversold, base_rsi_overbought>>
    ELSE IF regime.volatility = "high"
         THEN <<Max(20, base_rsi_oversold - 10), Min(80, base_rsi_overbought + 10)>>
    ELSE IF regime.volatility = "low"
         THEN <<Min(35, base_rsi_oversold + 5), Max(65, base_rsi_overbought - 5)>>
    ELSE <<base_rsi_oversold, base_rsi_overbought>>

(***************************************************************************)
(* adjust_weights_for_regime (adaptive_strategy.py:219-261)                *)
(***************************************************************************)
\* weights[k] *= tenths / 10 for the keys of a set; exact on the weights met
Times(w, keys, tenths) ==
    [c \in Components |-> IF c \in keys THEN (w[c] * tenths) \div 10 ELSE w[c]]

VolatilityRule(w, regime) ==
    IF regime.volatility = "high"
    THEN Times(Times(Times(w, {"macd"}, 13), {"rsi"}, 8), {"bollinger"}, 12)
    ELSE IF regime.volatility = "low"
    THEN Times(Times(Times(w, {"rsi"}, 13), {"bollinger"}, 14), {"macd"}, 8)
    ELSE w

TrendRule(w, regime) ==
    IF regime.trend \in {"bullish", "bearish"}
    THEN Times(Times(w, {"ema_trend"}, 14), {"macd"}, 12)
    ELSE IF regime.trend = "ranging"
    THEN Times(Times(w, {"rsi"}, 13), {"stochastic"}, 12)
    ELSE w

VolumeRule(w, regime) ==
    IF regime.volume = "high"
    THEN Times(Times(w, {"volume"}, 15), Components \ {"volume"}, 11)
    ELSE w

\* sum(weights.values())
SumWeights(w) ==
    w["rsi"] + w["macd"] + w["bollinger"] + w["ema_trend"] + w["volume"]
    + w["stochastic"] + w["atr"] + w["ml_prediction"]

\* a * n / d rounded to the nearest integer, for 0 <= a, 0 < d
RoundDiv(a, n, d) == (2 * a * n + d) \div (2 * d)

\* the weights kept as they are
Unnormalised(w) == w
\* {k: v / total_weight for k, v in weights.items()}
Normalised(w) == [c \in Components |-> RoundDiv(w[c], WeightScale, SumWeights(w))]

\* the weights the previous adjustment left
WeightsLeftBefore(base, current) == current
\* weights = self.base_weights.copy()
WeightsToAdjust(base, current) == base

\* current_weights after adjust_weights_for_regime(regime)
AdjustWeightsForRegime(base, current, regime) ==
    Normalised(VolumeRule(TrendRule(VolatilityRule(WeightsToAdjust(base, current),
                                                   regime), regime), regime))


(***************************************************************************)
(* Data frames                                                             *)
(***************************************************************************)
AllColumns == {"close", "volume", "atr", "rsi", "ema_12", "ema_26", "macd",
               "macd_signal", "bb_upper", "bb_middle", "bb_lower"}
\* twenty rows of a quiet market with every indicator
Quiet ==
    [cols |-> AllColumns, rows |-> 20, close |-> 10000, prev_close |-> 10000,
     sma_20 |-> 10000, returns_std |-> 200, atr |-> 100, avg_atr |-> 100,
     ema_12 |-> 10000, ema_26 |-> 10000, ema_12_prev |-> 10000,
     ema_26_prev |-> 10000, volume |-> 1000, avg_volume |-> 1000, rsi |-> 50,
     macd |-> 0, macd_signal |-> 0, macd_prev |-> 0, signal_prev |-> 0,
     bb_upper |-> 10400, bb_middle |-> 10000, bb_lower |-> 9600]
\* a volatile rally on heavy volume, and a dull decline on thin volume
Rally ==
    [Quiet EXCEPT !.close = 10300, !.prev_close = 10100, !.sma_20 = 10000,
                  !.returns_std = 400, !.atr = 200, !.ema_12 = 10300,
                  !.volume = 2000, !.rsi = 85, !.macd = 8, !.macd_prev = 6]
Decline ==
    [Quiet EXCEPT !.close = 9700, !.prev_close = 9800, !.returns_std = 50,
                  !.atr = 50, !.ema_12 = 9700, !.volume = 500, !.rsi = 15,
                  !.macd = -8, !.macd_prev = -6]
\* a dip and a spike on which every component agrees
Oversold ==
    [Quiet EXCEPT !.close = 9650, !.prev_close = 9600, !.rsi = 15, !.macd = 8,
                  !.macd_prev = -2, !.ema_12 = 10100, !.volume = 2000]
Overbought ==
    [Quiet EXCEPT !.close = 10350, !.prev_close = 10400, !.rsi = 85, !.macd = -8,
                  !.macd_prev = 2, !.ema_12 = 9900, !.volume = 2000]
\* the column sets and lengths a frame arrives with
ColumnSets ==
    {AllColumns, {"close"}, {}, {"close", "ema_12"}, {"close", "atr", "rsi"},
     {"atr", "ema_12", "ema_26", "volume", "rsi"}, AllColumns \ {"bb_middle"}}
RowCounts == {0, 1, 20}
Cut(df, cols, rows) == [df EXCEPT !.cols = cols, !.rows = rows]

(***************************************************************************)
(* Specification RegimeSpec: an engine classifying snapshots               *)
(***************************************************************************)
MaxHistory == 2
RegimeFrames ==
    {Cut(df, cols, rows) : df \in {Quiet, Rally, Decline}, cols \in ColumnSets,
                           rows \in RowCounts}

Detected(df) ==
    [op |-> "detect_market_regime", ok |-> ~DetectRaises(df),
     regime |-> DetectMarketRegime(df), df |-> df]

EngineInit ==
    /\ selling = NoCall
    /\ TraderConstructed
    /\ now = 0
    /\ current_capital = InitialCapital
    /\ peak_capital = InitialCapital
    /\ daily_start_capital = InitialCapital
    /\ day_start_date = Date(0)
    /\ positions = << >>
    /\ bot_positions = {}
    /\ closed_positions = << >>
    /\ circuit_breaker_active = FALSE
    /\ circuit_breaker_until = NoDeadline
    /\ loop_pos = 0
    /\ last = Returned("init", TRUE, "", FALSE)
    /\ \E ml \in BOOLEAN : EngineConstructed(ml)

\* detect_market_regime(df)
DetectRegime(df) ==
    /\ Len(regime_history) < MaxHistory
    /\ regime_history' = HistoryAfterDetect(regime_history, df)
    /\ last' = Detected(df)
    /\ UNCHANGED <<ml_enabled, current_weights>>
    /\ UNCHANGED <<riskVars, traderVars>>

RegimeNext == \E df \in RegimeFrames : DetectRegime(df)

RegimeSpec == EngineInit /\ [][RegimeNext]_vars

\* a frame the classifier gets through: it has a row, and a close column
\* wherever a fallback reads it
Classifiable(df) ==
    /\ df.rows > 0
    /\ "close" \in df.cols \/ {"atr", "ema_12", "ema_26"} \subseteq df.cols
\* the share of the four indicators a frame carries, in percent
IndicatorShare(df) ==
    25 * Cardinality({c \in {"atr", "ema_12", "volume", "rsi"} : c \in df.cols})
ValidRegime(regime) ==
    /\ regime.volatility \in {"low", "medium", "high"}
    /\ regime.trend \in {"bullish", "bearish", "ranging"}
    /\ regime.volume \in {"low", "normal", "high"}

\* C20 (as amended): every classification returns members of the three
\* enumerations; for a frame the classifier gets through, the confidence is
\* the number of atr, ema_12, volume and rsi columns present divided by
\* four, hence 0 when none is present; for a frame on which it fails
\* internally the regime is medium/ranging/normal at confidence 0.5
C20_RegimeAndConfidence ==
    last.op = "detect_market_regime" =>
        /\ ValidRegime(last.regime)
        /\ Classifiable(last.df) => last.regime.confidence = IndicatorShare(last.df)
        /\ ~Classifiable(last.df) =>
               last.regime = MarketRegime("medium", "ranging", "normal", 50)

\* C20 witness: a frame with a close column and none of the four indicators
\* was classified at confidence 0
C20_NoIndicatorZeroConfidence ==
    /\ last.op = "detect_market_regime"
    /\ Classifiable(last.df)
    /\ IndicatorShare(last.df) = 0
    /\ last.regime.confidence = 0
    /\ last.regime.volatility = "high"

\* C20 as stated: whatever the snapshot, the confidence is the share of the
\* four indicators present
C20_ConfidenceIsShareAlways ==
    last.op = "detect_market_regime" =>
        /\ ValidRegime(last.regime)
        /\ last.regime.confidence = IndicatorShare(last.df)


(***************************************************************************)
(* Specification WeightSpec: an engine adapting its weights to a sequence  *)
(* of regimes                                                              *)
(***************************************************************************)
\* the confidences a regime comes with, in percent
RegimeConfidences == {0, 100}
AllRegimes == UNION {Regimes(confidence) : confidence \in RegimeConfidences}

Adjusted(regime, before) ==
    [op |-> "adjust_weights_for_regime", ok |-> TRUE, regime |-> regime,
     before |-> before]

\* adjust_weights_for_regime(regime)
AdjustWeights(regime) ==
    /\ current_weights' = AdjustWeightsForRegime(base_weights, current_weights, regime)
    /\ last' = Adjusted(regime, current_weights)
    /\ UNCHANGED <<ml_enabled, regime_history>>
    /\ UNCHANGED <<riskVars, traderVars>>

WeightNext == \E regime \in AllRegimes : AdjustWeights(regime)

WeightSpec == EngineInit /\ [][WeightNext]_vars

\* the quotients are each rounded by at most half a unit
SumTolerance == Cardinality(Components) \div 2

\* C13 (as amended): after an adjustment to any of the 27 regimes no weight
\* is negative and the weights sum to 1 within the rounding of the quotients
C13_WeightsNormalised ==
    last.op = "adjust_weights_for_regime" =>
        /\ \A c \in Components : current_weights[c] >= 0
        /\ Abs(SumWeights(current_weights) - WeightScale) <= SumTolerance

\* C13 witness: an engine without ML (a zero weight) was adjusted to a
\* regime that fires a rule of each kind, and its weights sum to 1 within
\* the rounding but not exactly
C13_AllRulesFired ==
    /\ last.op = "adjust_weights_for_regime"
    /\ last.regime.volatility = "high"
    /\ last.regime.trend = "bullish"
    /\ last.regime.volume = "high"
    /\ ~ml_enabled
    /\ current_weights["ml_prediction"] = 0
    /\ current_weights["macd"] > current_weights["rsi"]
    /\ SumWeights(current_weights) # WeightScale
    /\ Abs(SumWeights(current_weights) - WeightScale) <= SumTolerance

\* C13 as stated: the weights sum to exactly 1
C13_SumExactlyOne ==
    last.op = "adjust_weights_for_regime" =>
        /\ \A c \in Components : current_weights[c] >= 0
        /\ SumWeights(current_weights) = WeightScale

\* the weights a newly constructed engine gets for a regime, its rules
\* applied in the opposite order
FreshWeights(ml, regime) ==
    Normalised(VolatilityRule(TrendRule(VolumeRule(BaseWeights(ml), regime), regime),
                              regime))

\* C14: the adapted weights are those a newly constructed engine would get
\* for the regime's volatility, trend and volume, in whatever order the
\* rules are applied: the weights left by earlier adjustments and the
\* regime's confidence play no part
C14_AdaptationFromBaseOnly ==
    last.op = "adjust_weights_for_regime" =>
        current_weights = FreshWeights(ml_enabled,
                                       MarketRegime(last.regime.volatility,
                                                    last.regime.trend,
                                                    last.regime.volume, 100))

\* C14 witness: an engine whose weights had been adapted to another regime
\* was adapted again and got different weights
C14_AdaptedAgain ==
    /\ last.op = "adjust_weights_for_regime"
    /\ last.before # BaseWeights(ml_enabled)
    /\ last.before # current_weights
    /\ last.regime.volatility = "low"
    /\ last.regime.trend = "ranging"


(***************************************************************************)
(* Component signals (adaptive_strategy.py:263-414), in thousandths        *)
(***************************************************************************)
SignalScale == 1000
\* a quotient of a signed numerator, rounded towards zero
Quot(a, d) == IF a >= 0 THEN a \div d ELSE -((-a) \div d)

\* calculate_rsi_signal(df, oversold, overbought); rsi in points
CalculateRsiSignal(df, oversold, overbought) ==
    IF "rsi" \notin df.cols THEN 0
    ELSE IF df.rsi < oversold
         THEN ((oversold - df.rsi) * SignalScale) \div oversold
    ELSE IF df.rsi > overbought
         THEN -(((df.rsi - overbought) * SignalScale) \div (100 - overbought))
    ELSE Quot((oversold + overbought - 2 * df.rsi) * SignalScale,
              4 * (overbought - oversold))
RsiRaises(df) == "rsi" \in df.cols /\ df.rows = 0

\* calculate_macd_signal(df); macd in hundredths
CalculateMacdSignal(df) ==
    IF "macd" \notin df.cols \/ "macd_signal" \notin df.cols THEN 0
    ELSE IF df.macd > df.macd_signal /\ df.macd_prev <= df.signal_prev THEN 800
    ELSE IF df.macd < df.macd_signal /\ df.macd_prev >= df.signal_prev THEN -800
    ELSE IF df.macd > df.macd_signal
         THEN Min(600, Abs(df.macd - df.macd_signal) * 100)
    ELSE -Min(600, Abs(df.macd - df.macd_signal) * 100)
\* iloc[-2] needs two rows
MacdRaises(df) == "macd" \in df.cols /\ "macd_signal" \in df.cols /\ df.rows < 2

\* calculate_bollinger_signal(df)
CalculateBollingerSignal(df) ==
    IF "bb_upper" \notin df.cols \/ "bb_lower" \notin df.cols THEN 0
    ELSE LET bb_range == df.bb_upper - df.bb_lower
             above == df.close - df.bb_lower
         IN  IF bb_range = 0 THEN 0
             ELSE IF 10 * above < 2 * bb_range THEN 700
             ELSE IF 10 * above > 8 * bb_range THEN -700
             ELSE IF 10 * above < 4 * bb_range THEN 300
             ELSE IF 10 * above > 6 * bb_range THEN -300
             ELSE 0
\* close and bb_middle are read without a check of the columns
BollingerRaises(df) ==
    /\ "bb_upper" \in df.cols /\ "bb_lower" \in df.cols
    /\ "close" \notin df.cols \/ "bb_middle" \notin df.cols \/ df.rows = 0

\* calculate_ema_trend_signal(df)
CalculateEmaTrendSignal(df) ==
    IF "ema_12" \notin df.cols \/ "ema_26" \notin df.cols THEN 0
    ELSE IF df.ema_12 > df.ema_26 /\ df.ema_12_prev <= df.ema_26_prev THEN 900
    ELSE IF df.ema_12 < df.ema_26 /\ df.ema_12_prev >= df.ema_26_prev THEN -900
    ELSE IF df.ema_12 > df.ema_26
         THEN Min(700, ((df.ema_12 - df.ema_26) * 20 * SignalScale) \div df.ema_26)
    ELSE -Min(700, ((df.ema_26 - df.ema_12) * 20 * SignalScale) \div df.ema_26)
EmaTrendRaises(df) ==
    /\ "ema_12" \in df.cols /\ "ema_26" \in df.cols
    /\ "close" \notin df.cols \/ df.rows < 2

\* calculate_volume_signal(df)
CalculateVolumeSignal(df) ==
    IF "volume" \notin df.cols THEN 0
    ELSE IF ~Warm(df) \/ df.avg_volume = 0 THEN 0
    ELSE IF 10 * df.volume > 15 * df.avg_volume
         THEN IF df.close > df.prev_close
              THEN Min(800, (df.volume * 300) \div df.avg_volume)
              ELSE -Min(800, (df.volume * 300) \div df.avg_volume)
    ELSE 0
\* close is read unless the average volume is zero
VolumeRaises(df) ==
    /\ "volume" \in df.cols
    /\ df.rows = 0 \/ ("close" \notin df.cols /\ ~(Warm(df) /\ df.avg_volume = 0))

\* ml_prediction: None or an empty dict (not given), or a dict whose signal
\* is a number in thousandths or is not a number; confidence in percent
NoPrediction == [given |-> FALSE, numeric |-> TRUE, signal |-> 0, confidence |-> 50]
MlSignal(ml, prediction) ==
    IF ml /\ prediction.given THEN Quot(prediction.signal * prediction.confidence, 100)
    ELSE 0
MlRaises(ml, prediction) == ml /\ prediction.given /\ ~prediction.numeric


(***************************************************************************)
(* generate_ensemble_signal (adaptive_strategy.py:416-531)                 *)
(***************************************************************************)
\* the keys of signals, in the order they are set
SignalSeq == <<"rsi", "macd", "bollinger", "ema_trend", "volume", "ml_prediction">>
SignalKeys == {SignalSeq[i] : i \in 1..Len(SignalSeq)}

RECURSIVE SumSignals(_, _)
\* the sum of f over the first n signal keys
SumSignals(f, n) == IF n = 0 THEN 0 ELSE SumSignals(f, n - 1) + f[SignalSeq[n]]

\* weighted_score before the division, and total_weight
WeightedScore(signals, weights) ==
    SumSignals([c \in SignalKeys |-> signals[c] * weights[c]], Len(SignalSeq))
TotalWeight(weights) == SumSignals(weights, Len(SignalSeq))

\* strength = (weighted_score + 1) * 50, as the ratio num / den
Strength(signals, weights) ==
    LET score == WeightedScore(signals, weights)
        total == TotalWeight(weights)
    IN  IF total > 0
        THEN [num |-> score + SignalScale * total, den |-> (SignalScale \div 50) * total]
        ELSE [num |-> 50 * (score + SignalScale), den |-> SignalScale]

BuyThreshold == 65
SellThreshold == 35
\* strength > 65
AboveBuyThreshold(strength) == strength.num > BuyThreshold * strength.den
\* strength >= 65
ReachesBuyThreshold(strength) == strength.num >= BuyThreshold * strength.den
ReachesSellThreshold(strength) == strength.num <= SellThreshold * strength.den
ActionFor(strength) ==
    IF ReachesBuyThreshold(strength) THEN "BUY"
    ELSE IF ReachesSellThreshold(strength) THEN "SELL"
    ELSE "HOLD"

\* np.std of a variance in thousandths squared, up to one half
RECURSIVE SqrtBetween(_, _, _)
\* the largest r in lo..hi with r * r <= n
SqrtBetween(n, lo, hi) ==
    IF lo = hi THEN lo
    ELSE LET mid == (lo + hi + 1) \div 2
         IN  IF mid * mid <= n THEN SqrtBetween(n, mid, hi)
             ELSE SqrtBetween(n, lo, mid - 1)
StdUpToHalf(variance) ==
    IF 4 * variance >= SignalScale * SignalScale THEN SignalScale \div 2
    ELSE SqrtBetween(variance, 0, SignalScale \div 2)

\* max(0.5, 1 - np.std(non-zero signals)) * regime.confidence, in thousandths
SignalConfidence(signals, regime) ==
    LET nonzero == {c \in SignalKeys : signals[c] # 0}
        n == Cardinality(nonzero)
        value(c) == IF c \in nonzero THEN signals[c] ELSE 0
        mean == Quot(SumSignals([c \in SignalKeys |-> value(c)], Len(SignalSeq)), n)
        dev2(c) == IF c \in nonzero THEN (signals[c] - mean) * (signals[c] - mean) ELSE 0
        variance == SumSignals([c \in SignalKeys |-> dev2(c)], Len(SignalSeq)) \div n
        agreement == IF n = 0 THEN SignalScale \div 2
                     ELSE Max(SignalScale \div 2, SignalScale - StdUpToHalf(variance))
    IN  (agreement * regime.confidence) \div 100

\* the component signals of a frame under a regime
ComponentSignals(df, regime, ml, prediction) ==
    LET thresholds == AdjustThresholdsForVolatility(regime)
    IN  [c \in SignalKeys |->
            CASE c = "rsi" -> CalculateRsiSignal(df, thresholds[1], thresholds[2])
              [] c = "macd" -> CalculateMacdSignal(df)
              [] c = "bollinger" -> CalculateBollingerSignal(df)
              [] c = "ema_trend" -> CalculateEmaTrendSignal(df)
              [] c = "volume" -> CalculateVolumeSignal(df)
              [] c = "ml_prediction" -> MlSignal(ml, prediction)]

\* an exception raised between the try and the return
GenerateRaises(df, ml, prediction) ==
    \/ RsiRaises(df) \/ MacdRaises(df) \/ BollingerRaises(df)
    \/ EmaTrendRaises(df) \/ VolumeRaises(df) \/ MlRaises(ml, prediction)

IndexErrorText == "single positional indexer is out-of-bounds"
\* str(e) of the first exception raised
ErrorText(df, ml, prediction) ==
    IF RsiRaises(df) \/ MacdRaises(df) THEN IndexErrorText
    ELSE IF BollingerRaises(df)
         THEN IF "close" \notin df.cols THEN "'close'"
              ELSE IF df.rows = 0 THEN IndexErrorText
              ELSE "'bb_middle'"
    ELSE IF EmaTrendRaises(df)
         THEN IF df.rows = 0 THEN IndexErrorText
              ELSE IF "close" \notin df.cols THEN "'close'"
              ELSE IndexErrorText
    ELSE IF VolumeRaises(df)
         THEN IF df.rows = 0 THEN IndexErrorText ELSE "'close'"
    ELSE "unsupported operand type(s) for *: 'NoneType' and 'float'"

AdaptiveSignal(action, strength, confidence, regime, components, reasoning) ==
    [action |-> action, strength |-> strength, confidence |-> confidence,
     regime |-> regime, components |-> components, reasoning |-> reasoning]

\* the signal an exception would leave the caller with were it not handled
Propagated(text) ==
    AdaptiveSignal("raised", [num |-> 0, den |-> 1], 0, DetectFallback, << >>, <<text>>)
\* except Exception as e: the neutral signal
ErrorSignal(text) ==
    AdaptiveSignal("HOLD", [num |-> 50, den |-> 1], 0,
                   MarketRegime("medium", "ranging", "normal", 0), << >>,
                   <<"Error: ", text>>)

\* the regime the engine last recorded, if any
RegimeRecordedBefore(history, regime) ==
    IF history = << >> THEN regime ELSE history[Len(history)]
\* regime = self.detect_market_regime(df)
RegimeInForce(history, regime) == regime

\* the signal returned, each reason kept as the component's name and signal
SignalOf(df, ml, prediction, regime, weights) ==
    LET signals == ComponentSignals(df, regime, ml, prediction)
        strength == Strength(signals, weights)
    IN  AdaptiveSignal(ActionFor(strength), strength,
                       SignalConfidence(signals, regime), regime, signals,
                       [i \in 1..(IF ml /\ prediction.given THEN 6 ELSE 5) |->
                           <<SignalSeq[i], signals[SignalSeq[i]]>>])

\* generate_ensemble_signal(df, ml_prediction) on an engine: the signal
\* returned and the state the engine is left in
GenerateEnsembleSignal(base, current, history, ml, df, prediction) ==
    LET regime == RegimeInForce(history, DetectMarketRegime(df))
        weights == AdjustWeightsForRegime(base, current, regime)
    IN  [signal |-> IF GenerateRaises(df, ml, prediction)
                    THEN ErrorSignal(ErrorText(df, ml, prediction))
                    ELSE SignalOf(df, ml, prediction, regime, weights),
         current_weights |-> weights,
         regime_history |-> HistoryAfterDetect(history, df)]


(***************************************************************************)
(* Specification EngineSpec: an engine asked for signals on a sequence of  *)
(* snapshots                                                               *)
(***************************************************************************)
SignalFrames ==
    {Quiet, Rally, Decline, Oversold, Overbought, Cut(Rally, AllColumns, 1),
     Cut(Quiet, AllColumns, 0),
     Cut(Rally, AllColumns \ {"bb_middle"}, 20), Cut(Decline, {"close"}, 20),
     Cut(Quiet, {}, 20)}
Predictions ==
    {NoPrediction,
     [given |-> TRUE, numeric |-> TRUE, signal |-> 1000, confidence |-> 90],
     [given |-> TRUE, numeric |-> TRUE, signal |-> -1000, confidence |-> 90],
     [given |-> TRUE, numeric |-> FALSE, signal |-> 0, confidence |-> 90]}

Generated(signal, df, prediction) ==
    [op |-> "generate_ensemble_signal", ok |-> TRUE, signal |-> signal, df |-> df,
     prediction |-> prediction]

\* await generate_ensemble_signal(df, ml_prediction)
GenerateSignal(df, prediction) ==
    LET g == GenerateEnsembleSignal(base_weights, current_weights, regime_history,
                                    ml_enabled, df, prediction)
    IN  /\ Len(regime_history) < MaxHistory
        /\ current_weights' = g.current_weights
        /\ regime_history' = g.regime_history
        /\ last' = Generated(g.signal, df, prediction)
        /\ UNCHANGED ml_enabled
        /\ UNCHANGED <<riskVars, traderVars>>

EngineNext ==
    \E df \in SignalFrames, prediction \in Predictions : GenerateSignal(df, prediction)

EngineSpec == EngineInit /\ [][EngineNext]_vars

\* C11: when an exception is raised inside generate_ensemble_signal, the
\* call returns a signal with action HOLD, strength 50 and confidence 0
\* whose reasoning holds the error text, whatever the snapshot
C11_ExceptionGivesNeutralSignal ==
    (/\ last.op = "generate_ensemble_signal"
     /\ GenerateRaises(last.df, ml_enabled, last.prediction)) =>
        /\ last.signal.action = "HOLD"
        /\ last.signal.strength.num = 50 * last.signal.strength.den
        /\ last.signal.confidence = 0
        /\ last.signal.reasoning = <<"Error: ", ErrorText(last.df, ml_enabled, last.prediction)>>

\* C11 witness: a one-row frame was classified, the MACD reading of its
\* previous row then failed, and the call returned the neutral signal
C11_FailedOnShortFrame ==
    /\ last.op = "generate_ensemble_signal"
    /\ last.df = Cut(Rally, AllColumns, 1)
    /\ MacdRaises(last.df)
    /\ Len(regime_history) = 1
    /\ last.signal.action = "HOLD"
    /\ last.signal.reasoning = <<"Error: ", IndexErrorText>>

\* C15: the signal returned for a snapshot and a prediction is the one a
\* newly constructed engine returns for them, whatever snapshots the engine
\* processed before
C15_SignalFromInputsOnly ==
    last.op = "generate_ensemble_signal" =>
        last.signal = GenerateEnsembleSignal(BaseWeights(ml_enabled),
                                             BaseWeights(ml_enabled), << >>,
                                             ml_enabled, last.df,
                                             last.prediction).signal

\* C15 witness: an engine that had classified a different regime before
\* returned a signal computed from its components
C15_SignalAfterOtherRegime ==
    /\ last.op = "generate_ensemble_signal"
    /\ Len(regime_history) = 2
    /\ regime_history[1] # regime_history[2]
    /\ ~GenerateRaises(last.df, ml_enabled, last.prediction)
    /\ last.signal.action = "SELL"
    /\ last.signal.regime = regime_history[2]


(***************************************************************************)
(* Specification EnsembleSpec: component signals combined under the        *)
(* weights of an engine as constructed or as adapted to a regime           *)
(***************************************************************************)
\* component signals in thousandths, around the two thresholds
SignalValues == {-1000, -300, -290, 0, 300, 310, 1000}
\* one value for the oscillator, momentum and ML components, one for the rest
SignalVectors ==
    {[c \in SignalKeys |-> IF c \in {"rsi", "macd", "ml_prediction"} THEN a ELSE b] :
        a \in SignalValues, b \in SignalValues}

EnsembleInit ==
    /\ selling = NoCall
    /\ TraderConstructed
    /\ now = 0
    /\ current_capital = InitialCapital
    /\ peak_capital = InitialCapital
    /\ daily_start_capital = InitialCapital
    /\ day_start_date = Date(0)
    /\ positions = << >>
    /\ bot_positions = {}
    /\ closed_positions = << >>
    /\ circuit_breaker_active = FALSE
    /\ circuit_breaker_until = NoDeadline
    /\ loop_pos = 0
    /\ last = Returned("init", TRUE, "", FALSE)
    /\ regime_history = << >>
    /\ ml_enabled \in BOOLEAN
    /\ current_weights \in
           {BaseWeights(ml_enabled)} \cup
           {AdjustWeightsForRegime(BaseWeights(ml_enabled), BaseWeights(ml_enabled), regime) :
               regime \in Regimes(100)}

Combined(signals, weights) ==
    [op |-> "ensemble", ok |-> TRUE, signals |-> signals,
     strength |-> Strength(signals, weights),
     action |-> ActionFor(Strength(signals, weights))]

\* the weighted score, strength and action of generate_ensemble_signal
CombineSignals(signals) ==
    /\ last' = Combined(signals, current_weights)
    /\ UNCHANGED <<selling, engineVars, traderVars>>
    /\ UNCHANGED <<riskVars, traderVars>>

EnsembleNext == \E signals \in SignalVectors : CombineSignals(signals)

EnsembleSpec == EnsembleInit /\ [][EnsembleNext]_vars

\* C12: for component signals in [-1, 1] and the engine's weights, the
\* strength lies in [0, 100]; the action is BUY exactly when the strength
\* is at least 65, SELL exactly when it is at most 35, and HOLD otherwise
C12_StrengthRangeAndThresholds ==
    last.op = "ensemble" =>
        /\ 0 <= last.strength.num
        /\ last.strength.num <= 100 * last.strength.den
        /\ last.action = "BUY" <=> last.strength.num >= 65 * last.strength.den
        /\ last.action = "SELL" <=> last.strength.num <= 35 * last.strength.den
        /\ last.action = "HOLD" <=>
               /\ last.strength.num < 65 * last.strength.den
               /\ last.strength.num > 35 * last.strength.den

\* C12 witness: every component at 0.3 under adapted weights gave a
\* strength of exactly 65 and a BUY
C12_BuyAtExactThreshold ==
    /\ last.op = "ensemble"
    /\ \A c \in SignalKeys : last.signals[c] = 300
    /\ current_weights # BaseWeights(ml_enabled)
    /\ last.strength.num = 65 * last.strength.den
    /\ last.action = "BUY"


(***************************************************************************)
(* Specification PlannerSpec: stops and targets planned for entries        *)
(***************************************************************************)
\* entry prices in cents, 50,000.00 among them
EntryPrices == {10000, 20000, 64000, 300000, 5000000}
\* the ATR as a share of the entry price, in thousandths
AtrShares == {0, 2, 5, 10, 15, 25, 30, 31, 40, 100}
PlannerFrames(entry_price) ==
    {[close |-> entry_price, has_atr |-> TRUE, atr |-> (entry_price \div 1000) * k] :
        k \in AtrShares}
    \cup {[close |-> entry_price, has_atr |-> FALSE, atr |-> 0]}
Sides == {"long", "short"}

Planned(entry_price, df, side, stop_loss, take_profits) ==
    [op |-> "plan", ok |-> TRUE, entry_price |-> entry_price, df |-> df,
     side |-> side, stop_loss |-> stop_loss, take_profits |-> take_profits]

\* calculate_stop_loss, then calculate_take_profit_levels on its result, as
\* execute_buy plans a long entry
Plan(entry_price, df, side) ==
    LET stop_loss == CalculateStopLoss(entry_price, df, side)
    IN  /\ last' = Planned(entry_price, df, side, stop_loss,
                           CalculateTakeProfitLevels(entry_price, stop_loss, side))
        /\ UNCHANGED <<riskVars, traderVars>>
        /\ UNCHANGED <<selling, engineVars, traderVars>>

PlannerNext ==
    \E entry_price \in EntryPrices, side \in Sides :
        \E df \in PlannerFrames(entry_price) : Plan(entry_price, df, side)

PlannerSpec == Init /\ [][PlannerNext]_vars

\* the distance between the planned stop and the entry
StopDistance == Abs(last.entry_price - last.stop_loss)

C18_TargetsWidenWhenVolatile ==
    last.op = "plan" =>
        LET away(i) == IF last.side = "long"
                       THEN last.take_profits[i] - last.entry_price
                       ELSE last.entry_price - last.take_profits[i]
        IN  IF last.df.has_atr /\ 100 * last.df.atr > 3 * last.entry_price
            THEN /\ 2 * away(1) = 3 * StopDistance
                 /\ 2 * away(2) = 5 * StopDistance
                 /\ away(3) = 4 * StopDistance
            ELSE /\ away(1) = 2 * StopDistance
                 /\ away(2) = 3 * StopDistance
                 /\ away(3) = 5 * StopDistance


(***************************************************************************)
(* Specification KellySpec: calculate_kelly_position_size on statistics    *)
(* handed in by a caller                                                   *)
(***************************************************************************)
\* win rates in quarters, average wins and losses in cents
WinRateQuarters == {0, 1, 2, 3, 4}
AverageWins == {0, 1000, 2000, 10000, 30000}
AverageLosses == {0, 1000, 2000, 10000, 50000}
Statistics(quarters, avg_win, avg_loss) ==
    [wr_num |-> quarters, wr_den |-> 4, win_num |-> avg_win, win_den |-> 1,
     loss_num |-> avg_loss, loss_den |-> 1]

KellySized(st, pct_milli) ==
    [op |-> "calculate_kelly_position_size", ok |-> TRUE, st |-> st,
     pct_milli |-> pct_milli]

\* calculate_kelly_position_size(win_rate, avg_win, avg_loss)
KellyRequest(quarters, avg_win, avg_loss) ==
    /\ last' = KellySized(Statistics(quarters, avg_win, avg_loss),
                          KellyPctMilli(Statistics(quarters, avg_win, avg_loss)))
    /\ UNCHANGED <<riskVars, traderVars>>
    /\ UNCHANGED <<selling, engineVars, traderVars>>

KellyNext ==
    \E quarters \in WinRateQuarters, avg_win \in AverageWins, avg_loss \in AverageLosses :
        KellyRequest(quarters, avg_win, avg_loss)

KellySpec == Init /\ [][KellyNext]_vars

\* C19: with an average loss of 0, a win rate of 0 or a win rate of 1 the
\* Kelly size is exactly half the configured maximum, and with any other
\* input it lies between 1% and the maximum
C19_DegenerateGivesHalfMaximum ==
    last.op = "calculate_kelly_position_size" =>
        IF \/ last.st.loss_num = 0
           \/ last.st.wr_num = 0
           \/ last.st.wr_num = last.st.wr_den
        THEN 2 * last.pct_milli = max_position_size_pct * 1000
        ELSE /\ last.pct_milli >= 1000
             /\ last.pct_milli <= max_position_size_pct * 1000


(***************************************************************************)
(* Specification HistorySpec: one symbol bought and sold at a profit, over *)
(* and over                                                                *)
(***************************************************************************)
\* the closes followed
MaxCloses == 101
\* "Keep only last 100 trades" (advanced_risk_manager.py:393-395)
RetentionCount == 100

Bought(symbol) == Returned("execute_buy", TRUE, symbol, FALSE)
Sold(symbol) == Returned("execute_sell", TRUE, symbol, FALSE)

\* execute_buy("BTC/USDT", df, BUY signal, 100.00)
BuyAgain ==
    LET symbol == SymbolSeq[1]
        df == [close |-> 10000, has_atr |-> TRUE, atr |-> 100]
        L == ExecuteBuyOn(Ledger, daily_start_capital, symbol, df, Buy, df.close)
    IN  /\ symbol \notin bot_positions
        /\ Len(closed_positions) < MaxCloses
        /\ positions' = L.pos
        /\ bot_positions' = L.bot
        /\ last' = Bought(symbol)
        /\ UNCHANGED <<now, current_capital, peak_capital, daily_start_capital,
                       day_start_date, closed_positions, circuit_breaker_active,
                       circuit_breaker_until, loop_pos>>
        /\ UNCHANGED <<selling, engineVars, traderVars>>

\* execute_sell("BTC/USDT", 102.00, reason)
SellAgain ==
    LET symbol == SymbolSeq[1]
        L == ExecuteSellOn(Ledger, symbol, 10200)
    IN  /\ symbol \in bot_positions
        /\ current_capital' = L.cap
        /\ peak_capital' = L.peak
        /\ closed_positions' = L.closed
        /\ positions' = L.pos
        /\ bot_positions' = L.bot
        /\ last' = Sold(symbol)
        /\ UNCHANGED <<now, daily_start_capital, day_start_date,
                       circuit_breaker_active, circuit_breaker_until, loop_pos>>
        /\ UNCHANGED <<selling, engineVars, traderVars>>

HistoryNext == BuyAgain \/ SellAgain

HistorySpec == Init /\ [][HistoryNext]_vars

\* C21: the history of closed positions never holds more than the
\* retention count of entries
C21_HistoryBounded == Len(closed_positions) <= RetentionCount


(***************************************************************************)
(* Capital state (specification Spec)                                      *)
(***************************************************************************)
\* the step appended a closed position: execute_sell ran to its bookkeeping
ClosedOne ==
    /\ Len(closed_positions') = Len(closed_positions) + 1
    /\ last'.op \in {"execute_sell", "update_position", "analyze_and_trade"}

\* the step is the rollover of reset_daily_metrics on a new calendar date
RolledOver ==
    /\ last'.op = "trading_loop"
    /\ Date(now) # day_start_date
    /\ daily_start_capital' = current_capital
    /\ day_start_date' = Date(now)

\* C22: current_capital and peak_capital change only in a step that closes a
\* position, daily_start_capital and the day boundary change only in the
\* rollover and only when the calendar date differs from the stored boundary;
\* opening a position (with its sizing and planning), can_open_position and
\* breaker checks and trailing-stop updates leave all four unchanged
C22_CapitalFrame ==
    [][/\ (current_capital' # current_capital \/ peak_capital' # peak_capital)
            => ClosedOne
       /\ (daily_start_capital' # daily_start_capital
           \/ day_start_date' # day_start_date) => RolledOver
       /\ (bot_positions' # bot_positions /\ bot_positions \subseteq bot_positions')
            => UNCHANGED <<current_capital, peak_capital, daily_start_capital,
                           day_start_date>>]_vars

\* a position was closed at a loss, the day rolled over to the capital left,
\* and a position is open with its stop trailed above the planned one
C22_ClosedRolledAndOpen ==
    /\ Len(closed_positions) > 0
    /\ current_capital < InitialCapital
    /\ day_start_date # Date(0)
    /\ daily_start_capital = current_capital
    /\ \E symbol \in bot_positions : positions[symbol].trailing_stop_active


(***************************************************************************)
(* AdvancedRiskManager: its circuit breaker                                *)
(* (advanced_risk_manager.py:331-384).  The flag is circuit_breaker_active,*)
(* False after construction; balances are in cents.                        *)
(***************************************************************************)
\* circuit_breaker_loss, in percent
circuit_breaker_loss_pct == 5

\* check_circuit_breaker(current_balance, starting_balance): the flag it
\* leaves and its return value, True if trading is allowed
AdvancedCheckCircuitBreaker(active, current_balance, starting_balance) ==
    IF active THEN [active |-> TRUE, ret |-> FALSE]
    ELSE IF (starting_balance - current_balance) * 100
               >= circuit_breaker_loss_pct * starting_balance
         \* activate_circuit_breaker("Intraday loss threshold")
         THEN [active |-> TRUE, ret |-> FALSE]
         ELSE [active |-> FALSE, ret |-> TRUE]

\* reset_circuit_breaker(manual): the flag it leaves and its return value
ResetCircuitBreaker(active, manual) ==
    IF manual THEN [active |-> active, ret |-> FALSE]
    ELSE [active |-> FALSE, ret |-> TRUE]

(* Specification AdvancedSpec: balance checks and resets in any order *)
\* balances of the day's start and of the moment of a check, in cents
StartingBalances == {1000000, 500000, 200000, 100000, 50000}
BalanceShares == {80, 90, 94, 95, 96, 98, 99, 100, 101, 102, 105, 110, 120}
CurrentBalances(starting_balance) ==
    {(starting_balance \div 100) * s : s \in BalanceShares}

Checked(ok, current_balance, starting_balance) ==
    [op |-> "check_circuit_breaker", ok |-> ok, manual |-> FALSE,
     current_balance |-> current_balance, starting_balance |-> starting_balance]
Reset(ok, manual) ==
    [op |-> "reset_circuit_breaker", ok |-> ok, manual |-> manual,
     current_balance |-> 0, starting_balance |-> 0]

AdvancedCheck(current_balance, starting_balance) ==
    LET r == AdvancedCheckCircuitBreaker(circuit_breaker_active, current_balance,
                                         starting_balance)
    IN  /\ circuit_breaker_active' = r.active
        /\ last' = Checked(r.ret, current_balance, starting_balance)
        /\ UNCHANGED <<now, current_capital, peak_capital, daily_start_capital,
                       day_start_date, positions, bot_positions, closed_positions,
                       circuit_breaker_until, loop_pos>>
        /\ UNCHANGED <<selling, engineVars, traderVars>>

AdvancedReset(manual) ==
    LET r == ResetCircuitBreaker(circuit_breaker_active, manual)
    IN  /\ circuit_breaker_active' = r.active
        /\ last' = Reset(r.ret, manual)
        /\ UNCHANGED <<now, current_capital, peak_capital, daily_start_capital,
                       day_start_date, positions, bot_positions, closed_positions,
                       circuit_breaker_until, loop_pos>>
        /\ UNCHANGED <<selling, engineVars, traderVars>>

AdvancedNext ==
    \/ \E starting_balance \in StartingBalances :
         \E current_balance \in CurrentBalances(starting_balance) :
            AdvancedCheck(current_balance, starting_balance)
    \/ \E manual \in BOOLEAN : AdvancedReset(manual)

AdvancedSpec == Init /\ [][AdvancedNext]_vars

\* C23: a reset of an active breaker called as a manual reset clears it and
\* reports success, a non-manual reset leaves it active, and a check made
\* while it is active refuses trading and leaves it active
C23_ClearedOnlyByManualReset ==
    [][circuit_breaker_active =>
         /\ (last'.op = "reset_circuit_breaker" /\ last'.manual)
              => (~circuit_breaker_active' /\ last'.ok)
         /\ (last'.op = "reset_circuit_breaker" /\ ~last'.manual)
              => circuit_breaker_active'
         /\ last'.op = "check_circuit_breaker"
              => (circuit_breaker_active' /\ ~last'.ok)]_vars


(***************************************************************************)
(* execute_sell statement by statement (main_enhanced.py:320-370), paper   *)
(* mode with a Telegram bot.  selling.pc is the statement the trading task *)
(* will execute next in the call, 0 when it is in no call.  The event loop *)
(* runs another task only while the trading task is suspended at an await. *)
(***************************************************************************)
\* pc of the statements of execute_sell that are awaits: only
\* "await self.telegram_bot.send_message(message)" (line 367)
SellAwaitsAfterCapital == {2, 6}
SellAwaits == {6}

\* the sum of the realized pnl of closed[lo..hi]
RECURSIVE SumPnl(_, _, _)
SumPnl(closed, lo, hi) ==
    IF lo > hi THEN 0
    ELSE IF lo = hi THEN closed[lo]
    ELSE LET mid == (lo + hi) \div 2
         IN  SumPnl(closed, lo, mid) + SumPnl(closed, mid + 1, hi)
RealizedPnl(closed) == SumPnl(closed, 1, Len(closed))

InSell(pc, symbol, price) == [pc |-> pc, symbol |-> symbol, price |-> price]
SellAt(pc) == [selling EXCEPT !.pc = pc]
Step(op) == Returned(op, TRUE, selling.symbol, FALSE)

\* lines 323-328: the position is looked up and position.update_pnl(price) run
SellEnter(symbol, price) ==
    /\ selling.pc = 0
    /\ symbol \in bot_positions
    /\ Len(closed_positions) < MaxClosed
    /\ positions' = [positions EXCEPT ![symbol] = UpdatePnl(@, price)]
    /\ selling' = InSell(1, symbol, price)
    /\ last' = Returned("execute_sell", TRUE, symbol, FALSE)
    /\ UNCHANGED <<now, current_capital, peak_capital, daily_start_capital,
                   day_start_date, bot_positions, closed_positions,
                   circuit_breaker_active, circuit_breaker_until, loop_pos>>
    /\ UNCHANGED <<engineVars, traderVars>>

\* lines 344-345: current_capital += position.realized_pnl
SellCapital ==
    /\ selling.pc = 1
    /\ current_capital' = current_capital + positions[selling.symbol].unrealized_pnl
    /\ selling' = SellAt(2)
    /\ last' = Step("capital")
    /\ UNCHANGED <<now, peak_capital, daily_start_capital, day_start_date, positions,
                   bot_positions, closed_positions, circuit_breaker_active,
                   circuit_breaker_until, loop_pos>>
    /\ UNCHANGED <<engineVars, traderVars>>

\* line 346: closed_positions.append(position)
SellAppend ==
    /\ selling.pc = 2
    /\ closed_positions' = Append(closed_positions,
                                  positions[selling.symbol].unrealized_pnl)
    /\ selling' = SellAt(3)
    /\ last' = Step("append")
    /\ UNCHANGED <<now, current_capital, peak_capital, daily_start_capital,
                   day_start_date, positions, bot_positions, circuit_breaker_active,
                   circuit_breaker_until, loop_pos>>
    /\ UNCHANGED <<engineVars, traderVars>>

\* lines 349-350: the peak follows the capital
SellPeak ==
    /\ selling.pc = 3
    /\ peak_capital' = IF current_capital > peak_capital THEN current_capital
                       ELSE peak_capital
    /\ selling' = SellAt(4)
    /\ last' = Step("peak")
    /\ UNCHANGED <<now, current_capital, daily_start_capital, day_start_date, positions,
                   bot_positions, closed_positions, circuit_breaker_active,
                   circuit_breaker_until, loop_pos>>
    /\ UNCHANGED <<engineVars, traderVars>>

\* line 353: del self.positions[symbol]
SellDelBot ==
    /\ selling.pc = 4
    /\ bot_positions' = bot_positions \ {selling.symbol}
    /\ selling' = SellAt(5)
    /\ last' = Step("del positions")
    /\ UNCHANGED <<now, current_capital, peak_capital, daily_start_capital,
                   day_start_date, positions, closed_positions, circuit_breaker_active,
                   circuit_breaker_until, loop_pos>>
    /\ UNCHANGED <<engineVars, traderVars>>

\* line 354: del self.risk_mgr.positions[symbol]; the task then reaches the
\* await of line 367
SellDelRisk ==
    /\ selling.pc = 5
    /\ positions' = Without(positions, selling.symbol)
    /\ selling' = SellAt(6)
    /\ last' = Step("del risk_mgr.positions")
    /\ UNCHANGED <<now, current_capital, peak_capital, daily_start_capital,
                   day_start_date, bot_positions, closed_positions,
                   circuit_breaker_active, circuit_breaker_until, loop_pos>>
    /\ UNCHANGED <<engineVars, traderVars>>

\* line 367 completes and execute_sell returns
SellReturn ==
    /\ selling.pc = 6
    /\ selling' = NoCall
    /\ last' = Step("return")
    /\ UNCHANGED <<now, current_capital, peak_capital, daily_start_capital,
                   day_start_date, positions, bot_positions, closed_positions,
                   circuit_breaker_active, circuit_breaker_until, loop_pos>>
    /\ UNCHANGED <<engineVars, traderVars>>

\* the trading task is suspended: between two calls, or at an await of the call
Suspended == selling.pc = 0 \/ selling.pc \in SellAwaits

\* the event loop runs another task (stop(), a handler) while the trading
\* task is suspended; it reads the ledger and writes none of it
OtherTask ==
    /\ Suspended
    /\ last.op # "other_task"
    /\ last' = Returned("other_task", TRUE, "", FALSE)
    /\ UNCHANGED <<riskVars, engineVars, traderVars>>

\* analyze_and_trade of the next symbol, run by the one trading task between
\* two calls of execute_sell: here execute_buy at 100.00
BuyBetween(symbol) ==
    LET df == [close |-> 10000, has_atr |-> TRUE, atr |-> 100]
        L == ExecuteBuyOn(Ledger, daily_start_capital, symbol, df, Buy, df.close)
    IN  /\ selling.pc = 0
        /\ symbol \notin bot_positions
        /\ positions' = L.pos
        /\ bot_positions' = L.bot
        /\ last' = Bought(symbol)
        /\ UNCHANGED <<now, current_capital, peak_capital, daily_start_capital,
                       day_start_date, closed_positions, circuit_breaker_active,
                       circuit_breaker_until, loop_pos, selling>>
        /\ UNCHANGED <<engineVars, traderVars>>

CloseNext ==
    \/ \E symbol \in Symbols : BuyBetween(symbol)
    \/ \E symbol \in Symbols, price \in Prices : SellEnter(symbol, price)
    \/ SellCapital
    \/ SellAppend
    \/ SellPeak
    \/ SellDelBot
    \/ SellDelRisk
    \/ SellReturn
    \/ OtherTask

CloseSpec == Init /\ [][CloseNext]_vars

\* every close is applied in full or not at all
WholeCloses ==
    /\ current_capital = InitialCapital + RealizedPnl(closed_positions)
    /\ peak_capital >= current_capital
    /\ bot_positions = DOMAIN positions
    /\ selling.pc # 0 => selling.symbol \notin bot_positions

\* C24: whenever another task runs, every close has been applied in full
\* (capital, closed history, peak and both position maps), and the trading
\* task is in at most one execute_sell call
C24_CloseIsAtomic == last.op = "other_task" => WholeCloses

\* another task ran while the trading task was suspended at the await inside
\* execute_sell, after a close at a profit that raised the peak
C24_ObservedAtAwait ==
    /\ last.op = "other_task"
    /\ selling.pc \in SellAwaits
    /\ Len(closed_positions) > 0
    /\ peak_capital > InitialCapital


(***************************************************************************)
(* Trader, paper mode with the default configuration (trader.py:107-443).  *)
(* Prices are whole dollars (multiples of 1000, so that the 0.1 %          *)
(* commission is a whole number of money units), money is in hundredths of *)
(* a cent and amounts in ten-thousandths: round(x, 8) keeps 4 decimals     *)
(* here.                                                                   *)
(***************************************************************************)
\* config.get('risk', {}).get(..., default)
max_positions == 3
position_size_percent == 10
stop_loss_percent == 3
\* 0.001: the commission is one thousandth of the value traded
CommissionPerMille == 1

\* round(n / d, digits): to the nearest unit, a tie to the even one
RoundHalfEven(n, d) ==
    LET q == n \div d
        r == n % d
    IN  IF 2 * r > d \/ (2 * r = d /\ q % 2 = 1) THEN q + 1 ELSE q

\* _calculate_position_size(available_balance, price, signal_strength),
\* dynamic sizing disabled; price # 0
CalculatePositionSize(available_balance, price) ==
    RoundHalfEven(available_balance * position_size_percent, 100 * price)

\* the limit test of execute_buy with the limit itself allowed
BeyondPositionLimit(pos) == Cardinality(DOMAIN pos) > max_positions
\* current_positions >= self.max_positions
AtPositionLimit(pos) == Cardinality(DOMAIN pos) >= max_positions

NoTrade == [action |-> "None", amount |-> 0, total |-> 0, commission |-> 0]

\* execute_buy(symbol, price, reason, signal_strength) with _execute_paper_buy:
\* the balance and positions it leaves, the trade it returns (NoTrade for
\* None) and what it logged
TraderExecuteBuy(bal, pos, symbol, price) ==
    LET refused(why) == [balance |-> bal, positions |-> pos, trade |-> NoTrade,
                         reason |-> why]
    IN  IF AtPositionLimit(pos) THEN refused("Maximum positions reached")
        ELSE IF symbol \in DOMAIN pos THEN refused("Already have position")
        ELSE IF price = 0 THEN refused("Error executing buy")   \* ZeroDivisionError
        ELSE LET amount == CalculatePositionSize(bal, price)
                 stop_loss == (price * (100 - stop_loss_percent)) \div 100
                 total_cost == price * amount
                 commission == (total_cost * CommissionPerMille) \div 1000
             IN  IF amount <= 0 THEN refused("Insufficient balance")
                 ELSE IF total_cost + commission > bal
                      THEN refused("Insufficient balance for paper buy")
                 ELSE [balance |-> bal - (total_cost + commission),
                       positions |-> With(pos, symbol,
                                          [amount |-> amount, entry_price |-> price,
                                           stop_loss |-> stop_loss]),
                       trade |-> [action |-> "BUY", amount |-> amount,
                                  total |-> total_cost, commission |-> commission],
                       reason |-> ""]

\* execute_sell(symbol, price, reason) with _execute_paper_sell
TraderExecuteSell(bal, pos, symbol, price) ==
    IF symbol \notin DOMAIN pos
    THEN [balance |-> bal, positions |-> pos, trade |-> NoTrade,
          reason |-> "No position to sell"]
    ELSE LET amount == pos[symbol].amount
             total_value == price * amount
             commission == (total_value * CommissionPerMille) \div 1000
         IN  [balance |-> bal + (total_value - commission),
              positions |-> Without(pos, symbol),
              trade |-> [action |-> "SELL", amount |-> amount, total |-> total_value,
                         commission |-> commission],
              reason |-> ""]

\* check_stop_loss_take_profit(symbol, current_price): 'SELL' or None; no
\* take-profit level is configured and the stop is not trailing
CheckStopLossTakeProfit(pos, symbol, current_price) ==
    IF symbol \notin DOMAIN pos THEN "None"
    ELSE IF current_price <= pos[symbol].stop_loss THEN "SELL"
    ELSE "None"

(* Specification TraderSpec: buys, sells and stop checks in any order *)
\* trades followed
MaxTrades == 4
TraderSymbols == {"BTC/USDT", "ETH/USDT", "SOL/USDT", "XRP/USDT"}
BuyPrices == {0, 45000, 46000}
SellPrices == {43000, 46000}
CheckPrices == {43000, 43650, 46000}
\* Trader(mode='paper', initial_balance=...): 10000.00 or nothing
InitialBalances == {initial_balance, 0}

TraderInit ==
    /\ Init
    /\ balance \in InitialBalances

TraderCall(op, symbol, price, trade, ret) ==
    [op |-> op, ok |-> trade.action # "None", symbol |-> symbol, price |-> price,
     trade |-> trade, ret |-> ret]

TraderBuy(symbol, price) ==
    LET r == TraderExecuteBuy(balance, trader_positions, symbol, price)
    IN  /\ trades < MaxTrades
        /\ balance' = r.balance
        /\ trader_positions' = r.positions
        /\ trades' = IF r.trade.action = "BUY" THEN trades + 1 ELSE trades
        /\ last' = TraderCall("Trader.execute_buy", symbol, price, r.trade, r.reason)
        /\ UNCHANGED <<riskVars, engineVars>>

TraderSell(symbol, price) ==
    LET r == TraderExecuteSell(balance, trader_positions, symbol, price)
    IN  /\ trades < MaxTrades
        /\ balance' = r.balance
        /\ trader_positions' = r.positions
        /\ trades' = IF r.trade.action = "SELL" THEN trades + 1 ELSE trades
        /\ last' = TraderCall("Trader.execute_sell", symbol, price, r.trade, r.reason)
        /\ UNCHANGED <<riskVars, engineVars>>

TraderCheck(symbol, current_price) ==
    /\ last' = TraderCall("Trader.check_stop_loss_take_profit", symbol, current_price,
                          NoTrade,
                          CheckStopLossTakeProfit(trader_positions, symbol,
                                                  current_price))
    /\ UNCHANGED <<riskVars, engineVars, traderVars>>

TraderNext ==
    \/ \E symbol \in TraderSymbols, price \in BuyPrices : TraderBuy(symbol, price)
    \/ \E symbol \in TraderSymbols, price \in SellPrices : TraderSell(symbol, price)
    \/ \E symbol \in TraderSymbols, price \in CheckPrices : TraderCheck(symbol, price)

TraderSpec == TraderInit /\ [][TraderNext]_vars

\* balance >= 0, and at most max_positions positions (one per symbol, the
\* positions being a map from symbols)
TraderSafe ==
    /\ balance >= 0
    /\ DOMAIN trader_positions \subseteq TraderSymbols
    /\ Cardinality(DOMAIN trader_positions) <= max_positions

\* what a call of execute_buy did
BuyEffect ==
    /\ (\/ Cardinality(DOMAIN trader_positions) >= max_positions
        \/ last'.symbol \in DOMAIN trader_positions
        \/ balance = 0) => ~last'.ok
    /\ IF last'.ok
       THEN /\ last'.symbol \notin DOMAIN trader_positions
            /\ DOMAIN trader_positions' = DOMAIN trader_positions \cup {last'.symbol}
            /\ \A x \in DOMAIN trader_positions :
                  trader_positions'[x] = trader_positions[x]
            /\ last'.trade.total = last'.price * trader_positions'[last'.symbol].amount
            /\ last'.trade.commission * 1000 = last'.trade.total * CommissionPerMille
            /\ balance' = balance - (last'.trade.total + last'.trade.commission)
       ELSE /\ last'.trade = NoTrade
            /\ UNCHANGED <<balance, trader_positions>>

\* what a call of execute_sell did
SellEffect ==
    IF last'.ok
    THEN /\ last'.symbol \in DOMAIN trader_positions
         /\ trader_positions' = Without(trader_positions, last'.symbol)
    ELSE UNCHANGED <<balance, trader_positions>>

\* what a call of check_stop_loss_take_profit returned
CheckEffect ==
    (/\ last'.symbol \in DOMAIN trader_positions
     /\ last'.price <= trader_positions[last'.symbol].stop_loss)
        => last'.ret = "SELL"

\* C25: the balance is never negative and there are at most max_positions
\* positions, one per symbol; a successful buy adds exactly one position and
\* lowers the balance by cost plus commission; a refused buy returns None and
\* leaves balance and positions unchanged; check_stop_loss_take_profit returns
\* SELL whenever the price is at or below the stop; a successful sell removes
\* the position
C25_TraderLifecycle ==
    /\ []TraderSafe
    /\ [][/\ last'.op = "Trader.execute_buy" => BuyEffect
          /\ last'.op = "Trader.execute_sell" => SellEffect
          /\ last'.op = "Trader.check_stop_loss_take_profit" => CheckEffect]_vars

\* three positions are held, a fourth buy was refused at the limit, and the
\* balance is what three buys left
C25_RefusedAtLimit ==
    /\ Cardinality(DOMAIN trader_positions) = max_positions
    /\ last.op = "Trader.execute_buy"
    /\ ~last.ok
    /\ last.symbol \notin DOMAIN trader_positions
    /\ balance < initial_balance
    /\ balance > 0


(* Specification TickSpec: positions opened at 100.00 and ticked at any price *)
\* prices of the ticks of an open position
TickPrices == {9700, 9900, 10050, 10150, 10200, 10300, 10500}

\* update_position(symbol, current_price) on a held symbol; stop_checked is
\* position.stop_loss as the stop-loss test of line 383 reads it
UpdatePositionAt(symbol, price) ==
    LET L == UpdatePositionOn(Ledger, symbol, price)
    IN  /\ selling.pc = 0
        /\ symbol \in bot_positions
        /\ Len(closed_positions) < MaxClosed
        /\ current_capital' = L.cap
        /\ peak_capital' = L.peak
        /\ closed_positions' = L.closed
        /\ positions' = L.pos
        /\ bot_positions' = L.bot
        /\ last' = [op |-> "update_position", ok |-> TRUE, symbol |-> symbol,
                    price |-> price, stop_checked |-> positions[symbol].stop_loss]
        /\ UNCHANGED <<now, daily_start_capital, day_start_date,
                       circuit_breaker_active, circuit_breaker_until, loop_pos,
                       selling>>
        /\ UNCHANGED <<engineVars, traderVars>>

TickNext ==
    \/ \E symbol \in Symbols : BuyBetween(symbol)
    \/ \E symbol \in Symbols, price \in TickPrices : UpdatePositionAt(symbol, price)

TickSpec == Init /\ [][TickNext]_vars

\* the stop of the position after update_pnl and update_trailing_stop for the
\* price of the tick
StopUpdatedFor(p, price) == UpdateTrailingStopOf(UpdatePnl(p, price)).stop_loss

\* C26: the exit check of a tick compares the price with the stop already
\* advanced for that tick's price
C26_ExitCheckAfterTrailing ==
    [][last'.op = "update_position"
         => last'.stop_checked = StopUpdatedFor(positions[last'.symbol], last'.price)]_vars


(* Specification VolatilitySpec: calculate_position_size_volatility on any ledger *)
VolatilitySized(size, price) ==
    [op |-> "calculate_position_size_volatility", ok |-> TRUE, size |-> size,
     price |-> price]

\* calculate_position_size_volatility(symbol, df)
VolatilitySizeRequest(df) ==
    /\ last' = VolatilitySized(CalculatePositionSizeVolatility(current_capital, df),
                               df.close)
    /\ UNCHANGED <<riskVars, engineVars, traderVars>>

VolatilityNext == \E df \in SizerFrames : VolatilitySizeRequest(df)

VolatilitySpec == LedgerInit /\ [][VolatilityNext]_vars

\* size x price, in cents
Notional(size, price) == MulDiv(size, price, SizeScale)

\* C27: on every return path the size returned is in base-asset units and its
\* notional at the current price is at most max_position_size_pct% of capital
C27_NotionalWithinMaximum ==
    last.op = "calculate_position_size_volatility" =>
        Notional(last.size, last.price) <= CalculateFixedPositionSize(current_capital)


(***************************************************************************)
(* Capital accounting (specification Spec)                                 *)
(***************************************************************************)
\* the capital after the first k closes
CapitalAfter(k) == InitialCapital + SumPnl(closed_positions, 1, k)

\* get_current_drawdown() >= 0
DrawdownNotNegative == DrawdownAtLeast(current_capital, peak_capital, 0)

\* C28: current_capital is the initial capital plus the realized pnl of all
\* closed positions, peak_capital is the largest capital there has been, at
\* least the current one, and the drawdown is never negative
C28_CapitalAccounting ==
    /\ current_capital = CapitalAfter(Len(closed_positions))
    /\ peak_capital >= current_capital
    /\ \E k \in 0..Len(closed_positions) : peak_capital = CapitalAfter(k)
    /\ \A k \in 0..Len(closed_positions) : peak_capital >= CapitalAfter(k)
    /\ DrawdownNotNegative

\* a close at a profit raised the peak, a close at a loss then left the capital
\* below it, a position is open and the day has rolled over
C28_PeakAboveCapital ==
    /\ Len(closed_positions) = 2
    /\ closed_positions[1] > 0
    /\ closed_positions[2] < 0
    /\ peak_capital > InitialCapital
    /\ current_capital < peak_capital
    /\ bot_positions # {}
    /\ day_start_date # Date(0)


(* Specification PortfolioSpec: more symbols configured than positions allowed *)
\* config.trading.symbols
PortfolioSymbols == {"BTC/USDT", "ETH/USDT", "BNB/USDT", "SOL/USDT", "XRP/USDT",
                     "ADA/USDT"}

\* analyze_and_trade(symbol) on the data frame df and the ensemble signal sig,
\* for the symbol the loop has come to
Evaluate(symbol, df, sig) ==
    LET can == CanOpenPosition(symbol, circuit_breaker_active, circuit_breaker_until,
                               now, current_capital, peak_capital,
                               daily_start_capital, closed_positions, positions)
        L == IF can.ok THEN TradeOn(Ledger, daily_start_capital, symbol, df, sig)
             ELSE Ledger
    IN  /\ circuit_breaker_active' = can.cb.active
        /\ circuit_breaker_until' = can.cb.until
        /\ current_capital' = L.cap
        /\ peak_capital' = L.peak
        /\ closed_positions' = L.closed
        /\ positions' = L.pos
        /\ bot_positions' = L.bot
        /\ last' = Returned("analyze_and_trade", can.ok, can.reason, can.cb.deactivated)
        /\ UNCHANGED <<now, daily_start_capital, day_start_date, loop_pos>>
        /\ UNCHANGED <<selling, engineVars, traderVars>>

\* (data frame, ensemble signal) pairs of the evaluations, and the price of a close
PortfolioInputs ==
    {[close |-> 10000, has_atr |-> TRUE, atr |-> 100]} \X {Buy, Sell}
ClosePrices == {10200}

\* closes followed
MaxPortfolioCloses == 1
\* execute_sell(symbol, price, reason) called on a held symbol
PortfolioClose(symbol, price) ==
    /\ Len(closed_positions) < MaxPortfolioCloses
    /\ ExecuteSell(symbol, price)

PortfolioNext ==
    \/ \E symbol \in PortfolioSymbols, in \in PortfolioInputs :
         Evaluate(symbol, in[1], in[2])
    \/ \E symbol \in PortfolioSymbols, price \in ClosePrices :
         PortfolioClose(symbol, price)

PortfolioSpec == Init /\ [][PortfolioNext]_vars

\* C29: the bot's position map and the risk manager's hold the same symbols,
\* one position each, there are at most 5 of them, and a step opens or closes
\* at most one symbol, in both maps
C29_OpenPositionsAgree ==
    /\ [](/\ bot_positions = DOMAIN positions
          /\ Cardinality(DOMAIN positions) <= MaxPositions)
    /\ [][\/ UNCHANGED <<bot_positions, positions>>
          \/ \E symbol \in PortfolioSymbols \ bot_positions :
                /\ bot_positions' = bot_positions \cup {symbol}
                /\ DOMAIN positions' = DOMAIN positions \cup {symbol}
          \/ \E symbol \in bot_positions :
                /\ bot_positions' = bot_positions \ {symbol}
                /\ positions' = Without(positions, symbol)]_vars

\* five positions are open and the evaluation of a sixth symbol was refused
C29_SixthRefused ==
    /\ Cardinality(bot_positions) = MaxPositions
    /\ last.op = "analyze_and_trade"
    /\ ~last.ok
    /\ last.reason = "Maximum positions already open"


(* Specification RsiSpec: calculate_rsi_signal at any RSI, under the thresholds *)
(* of any volatility                                                        *)
\* RSI readings, in points
RsiValues == 0..100
\* (oversold, overbought) as adjust_thresholds_for_volatility returns them
Thresholds ==
    {AdjustThresholdsForVolatility([volatility |-> v]) : v \in Volatilities}

\* calculate_rsi_signal(df, oversold, overbought) on a frame whose last rsi is
\* the reading
RsiSignalRequest(rsi, th) ==
    /\ last' = [op |-> "calculate_rsi_signal", ok |-> TRUE, rsi |-> rsi,
                oversold |-> th[1], overbought |-> th[2],
                signal |-> CalculateRsiSignal([cols |-> {"rsi"}, rows |-> 1,
                                               rsi |-> rsi], th[1], th[2])]
    /\ UNCHANGED <<riskVars, engineVars, traderVars>>

RsiNext == \E rsi \in RsiValues, th \in Thresholds : RsiSignalRequest(rsi, th)

RsiSpec == Init /\ [][RsiNext]_vars

\* C30: under the same thresholds a lower RSI never gives a lower signal, the
\* signal is positive below the oversold threshold and negative above the
\* overbought one
C30_RsiSignalMonotone ==
    [][/\ last'.rsi < last'.oversold => last'.signal > 0
       /\ last'.rsi > last'.overbought => last'.signal < 0
       /\ (/\ last.op = "calculate_rsi_signal"
           /\ last.oversold = last'.oversold
           /\ last.overbought = last'.overbought
           /\ last.rsi < last'.rsi) => last.signal >= last'.signal]_vars

=============================================================================
